---- MODULE Spec2Model ----
(***************************************************************************)
(* Sensor-node runtime of firmware/node-agent (src/main.cpp): the event    *)
(* builder, the bounded event queue and its admission path, the ingest     *)
(* client, the BLE advertisement callback with its dedup ring, and the     *)
(* Wi-Fi station event handler.                                            *)
(*                                                                         *)
(* Time is the value of millis(), counted in model ticks; OneSecond ticks  *)
(* stand for 1000 ms.  A JSON text (an Arduino String) is a sequence of    *)
(* tokens: punctuation, numbers and literals as written, a quoted string   *)
(* as the token Q(x).  String::indexOf(k) >= 0 for a quoted key k is the   *)
(* occurrence of the token k anywhere in the sequence.  String values are  *)
(* taken from alphabets without quote, backslash and control characters,   *)
(* which jsonEscape (main.cpp:162-182) copies unchanged.                   *)
(***************************************************************************)
EXTENDS Integers, Sequences, FiniteSets, TLC

(***************************************************************************)
(* Bounds of the model.  The configuration macros of include/config.h are  *)
(* overridable at build time; the model runs a small configuration.        *)
(***************************************************************************)
EVENT_QUEUE_CAPACITY == 3
INGEST_BATCH_SIZE == 2
BLE_OBS_CAPACITY == 2
BLE_MAX_PER_SECOND == 1
BLE_DEDUPE_MS == 3
OneSecond == 2
MaxSeq == 5
MaxNow == 4
MaxCalls == 5
MaxMinutes == 1
WIFI_AP_MAX_RESULTS == 2
WIFI_CONNECT_TIMEOUT_MS == 2
MaxRestarts == 1

(***************************************************************************)
(* Program constants.                                                      *)
(***************************************************************************)
EVENT_SCHEMA_VERSION == 1
MaxFailCount == 6
UInt8 == 256
WIFI_AP_DEDUPE_MS == 0

\* config.h: 1000 ms and 30000 ms
WIFI_RETRY_BASE_MS == 1 * OneSecond
WIFI_RETRY_MAX_MS == 30 * OneSecond
HEARTBEAT_INTERVAL_MS == 10 * OneSecond
ANNOUNCE_INTERVAL_MS == 60 * OneSecond

Min(a, b) == IF a < b THEN a ELSE b

kDefaultNodeId == "node-unknown"
FW_VERSION == "0.1.0"

\* nodeId as setup() leaves it: NODE_ID is empty, so the default is used.
nodeId == kDefaultNodeId

\* hostname = sanitizeHostname(nodeId): lower-case letters, digits and '-'
\* are kept, so "node-unknown" is unchanged.
hostname == "node-unknown"

kDefaultIngestUrl == "http://pi-logger.local:8088/v1/ingest"
ingestUrl == kDefaultIngestUrl

\* Readings of the platform (ESP, WiFi), fixed: the texts they print as.
ChipModel == "ESP32"
ChipRevision == "1"
SdkVersion == "v4.4"
MacAddress == "24:6f:28:00:00:01"
FreeHeap == "150000"
LocalIp == "10.0.0.2"
ZeroIp == "0.0.0.0"
GatewayIp == "10.0.0.1"
SubnetMask == "255.255.255.0"
StaBssid == "0a:0b:0c:0d:0e:0f"
StaChannel == "6"
StaRssi == "-50"
StaAuthMode == "wpa2"

----------------------------------------------------------------------------
(***************************************************************************)
(* JSON fragments.                                                         *)
(***************************************************************************)
Q(x) == "\"" \o x \o "\""

jsonBool(v) == IF v THEN "true" ELSE "false"

\* jsonKV(key, value, quote): "key":"value" or "key":value
jsonKV(key, value, quote) ==
    IF quote THEN <<Q(key), ":", Q(value)>> ELSE <<Q(key), ":", value>>

jsonMaybeString(key, value) ==
    IF value = "" THEN <<Q(key), ":", "null">> ELSE jsonKV(key, value, TRUE)

\* "," + fragment
Comma(fragment) == <<",">> \o fragment

\* String::indexOf(token) >= 0
Contains(json, token) == \E i \in 1..Len(json) : json[i] = token

RequiredKeys == {"v", "ts_ms", "node_id", "type", "src", "data"}

\* Variant: the data key is not looked for.
isValidEventJsonNoData(json) ==
    /\ Contains(json, Q("v"))
    /\ Contains(json, Q("ts_ms"))
    /\ Contains(json, Q("node_id"))
    /\ Contains(json, Q("type"))
    /\ Contains(json, Q("src"))

isValidEventJson(json) ==
    /\ Contains(json, Q("v"))
    /\ Contains(json, Q("ts_ms"))
    /\ Contains(json, Q("node_id"))
    /\ Contains(json, Q("type"))
    /\ Contains(json, Q("src"))
    /\ Contains(json, Q("data"))

\* The text buildEvent returns for sequence number seq (the caller has
\* already incremented eventSeq) at timestamp ts.
buildEventJson(seq, ts, type, dataJson, extraJson) ==
    <<"{">> \o jsonKV("v", ToString(EVENT_SCHEMA_VERSION), FALSE)
        \o Comma(jsonKV("ts_ms", ToString(ts), FALSE))
        \o Comma(jsonKV("node_id", nodeId, TRUE))
        \o Comma(jsonKV("type", type, TRUE))
        \o Comma(jsonKV("src", nodeId, TRUE))
        \o Comma(jsonKV("seq", ToString(seq), FALSE))
        \o (IF Len(extraJson) > 0 THEN Comma(extraJson) ELSE <<>>)
        \o <<",", Q("data"), ":">> \o dataJson
        \o <<"}">>

----------------------------------------------------------------------------
(***************************************************************************)
(* EventQueue: a circular buffer of EventEntry {json, logged}.             *)
(***************************************************************************)
Slots == 0..(EVENT_QUEUE_CAPACITY - 1)

EmptyQueue ==
    [buffer_ |-> [i \in Slots |-> [json |-> <<>>, logged |-> FALSE]],
     head_ |-> 0, tail_ |-> 0, count_ |-> 0]

\* Variant: the capacity test is count_ > capacity_.
QueuePushOffByOne(q, json) ==
    IF q.count_ > EVENT_QUEUE_CAPACITY
    THEN [q |-> q, ok |-> FALSE]
    ELSE [q |-> [q EXCEPT !.buffer_[q.tail_] = [json |-> json, logged |-> FALSE],
                          !.tail_ = (q.tail_ + 1) % EVENT_QUEUE_CAPACITY,
                          !.count_ = q.count_ + 1],
          ok |-> TRUE]

\* Variant: a full queue drops its oldest entry to make room.
QueuePushEvict(q, json) ==
    LET full == q.count_ >= EVENT_QUEUE_CAPACITY IN
    [q |-> [q EXCEPT !.buffer_[q.tail_] = [json |-> json, logged |-> FALSE],
                     !.tail_ = (q.tail_ + 1) % EVENT_QUEUE_CAPACITY,
                     !.head_ = IF full THEN (q.head_ + 1) % EVENT_QUEUE_CAPACITY
                               ELSE q.head_,
                     !.count_ = IF full THEN q.count_ ELSE q.count_ + 1],
     ok |-> TRUE]

\* Variant: the slot keeps the logged flag of the entry it held before.
QueuePushKeepFlag(q, json) ==
    IF q.count_ >= EVENT_QUEUE_CAPACITY
    THEN [q |-> q, ok |-> FALSE]
    ELSE [q |-> [q EXCEPT !.buffer_[q.tail_].json = json,
                          !.tail_ = (q.tail_ + 1) % EVENT_QUEUE_CAPACITY,
                          !.count_ = q.count_ + 1],
          ok |-> TRUE]

\* EventQueue::push: the queue after the call and the value returned.
QueuePush(q, json) ==
    IF q.count_ >= EVENT_QUEUE_CAPACITY
    THEN [q |-> q, ok |-> FALSE]
    ELSE [q |-> [q EXCEPT !.buffer_[q.tail_] = [json |-> json, logged |-> FALSE],
                          !.tail_ = (q.tail_ + 1) % EVENT_QUEUE_CAPACITY,
                          !.count_ = q.count_ + 1],
          ok |-> TRUE]

QueueEmpty(q) == q.count_ = 0

QueueSize(q) == q.count_

\* EventQueue::at(idx): the slot index it refers to.
QueueAtIdx(q, idx) == (q.head_ + idx) % EVENT_QUEUE_CAPACITY

QueueAt(q, idx) == q.buffer_[QueueAtIdx(q, idx)]

QueueFront(q) == q.buffer_[q.head_]

\* Variant: the newest entry is removed instead of the oldest.
QueuePopTail(q) ==
    IF q.count_ = 0 THEN q
    ELSE [q EXCEPT !.tail_ = (q.tail_ + EVENT_QUEUE_CAPACITY - 1) % EVENT_QUEUE_CAPACITY,
                   !.count_ = q.count_ - 1]

QueuePop(q) ==
    IF q.count_ = 0 THEN q
    ELSE [q EXCEPT !.head_ = (q.head_ + 1) % EVENT_QUEUE_CAPACITY,
                   !.count_ = q.count_ - 1]

\* Variant: one pop whatever the batch count.
QueuePopNOnce(q, n) == IF n = 0 THEN q ELSE QueuePop(q)

RECURSIVE QueuePopN(_, _)
\* for (i = 0; i < batch; i++) queue.pop();
QueuePopN(q, n) == IF n = 0 THEN q ELSE QueuePopN(QueuePop(q), n - 1)

\* The JSON texts in the queue, head first.
QueueContents(q) == [i \in 1..q.count_ |-> QueueAt(q, i - 1).json]

----------------------------------------------------------------------------
(***************************************************************************)
(* State.                                                                  *)
(***************************************************************************)
VARIABLES
    now,                  \* millis(), in ticks
    pc,                   \* main task: "boot", "loop", "post" (inside http.POST)
    queue,                \* EventQueue queue(EVENT_QUEUE_CAPACITY)
    eventSeq, eventDropCount, eventInvalidCount,
    nextSendAtMs, failCount,
    ingestOkCount, ingestErrCount, lastIngestOkMs, lastIngestErrMs,
    lastIngestErr, lastIngestOkEventMs, lastIngestErrEventMs,
    postBatch, postPayload,   \* locals of trySendQueued across the POST
    postStart,                \* millis() when the last POST was begun
    prefs,                \* persisted namespace "wifi": [ssid, pass]
    runtimeSsid, runtimePass,
    wlConnected,          \* WiFi.isConnected()
    staBegun,             \* WiFi.begin() has been called
    portalActive, serverStarted,
    wifiState, wifiFailCount, nextWifiAttemptMs, wifiConnectStartMs,
    lastDisconnectReason, lastAuthMode, lastAnnounceMs,
    bleRing, bleRingCount, bleRingHead, bleRingOverwriteCount, bleDedupeCount,
    bleSeenCount, lastBleResultMs, lastBleRestartMs, bleScanRestartCount,
    bleSecondStart, bleCountThisSecond,
    bleScanning,          \* bleScan != nullptr && bleScan->isScanning()
    \* history variables (not program state)
    admitted,             \* JSON texts accepted by queue.push, in order
    delivered,            \* JSON texts contained in a POST answered with 2xx
    postEntries,          \* JSON texts the outstanding POST carries
    serialLog,            \* lines written by Serial.println(entry.json)
    bleEmitLog,           \* millis() of every ble.seen event built
    connectingSinceMs,    \* millis() when wifiState last became "connecting"
    gotIpCount,           \* STA_GOT_IP events handled
    announceBuilt,        \* node.announce events built
    restartCount,         \* calls of ESP.restart()
    \* program state, continued
    wifiApCache, wifiApDedupeCount, wifiApSeenCount, wifiApDropCount,
    apPermit,             \* value returned by the last shouldEmitAp call
    loopAt,               \* statement of loop() the main task is at
    pendingJson,          \* String buildEvent returned, not yet pushed
    bleScanStallCount,
    stallRestartMs,       \* history: millis() of the last stall restart
    watchdogCalls,        \* history: calls of ensureBleScan()
    saveStatus,           \* status of the last /save response, 0 before any
    lastWifiConnected, lastIpStr, lastHeartbeatMs

queueVars == <<queue, eventSeq, eventDropCount, eventInvalidCount, admitted>>
ingestVars == <<nextSendAtMs, failCount, ingestOkCount, ingestErrCount,
                lastIngestOkMs, lastIngestErrMs, lastIngestErr,
                lastIngestOkEventMs, lastIngestErrEventMs,
                postBatch, postPayload, postStart, postEntries, delivered,
                serialLog>>
credVars == <<prefs, runtimeSsid, runtimePass>>
wifiVars == <<wlConnected, staBegun, portalActive, serverStarted, wifiState,
              wifiFailCount, nextWifiAttemptMs, wifiConnectStartMs,
              lastDisconnectReason, lastAuthMode, lastAnnounceMs>>
bleVars == <<bleRing, bleRingCount, bleRingHead, bleRingOverwriteCount,
             bleDedupeCount, bleSeenCount, lastBleResultMs, lastBleRestartMs,
             bleScanRestartCount, bleSecondStart, bleCountThisSecond,
             bleScanning, bleEmitLog>>
apVars == <<wifiApCache, wifiApDedupeCount, wifiApSeenCount, wifiApDropCount,
           apPermit>>
loopVars == <<loopAt, lastWifiConnected, lastIpStr, lastHeartbeatMs>>
histVars == <<connectingSinceMs, gotIpCount, announceBuilt, restartCount>>
mainVars == <<pendingJson, bleScanStallCount, stallRestartMs, watchdogCalls,
              saveStatus>>
vars == <<now, pc, queueVars, ingestVars, credVars, wifiVars, bleVars,
          apVars, loopVars, histVars, mainVars>>

\* unsigned long difference a - b.  Every timestamp the program stores is a
\* past value of millis(), and millis() does not wrap within MaxNow ticks,
\* so the difference is taken without the reduction modulo 2^32.  For the
\* same reason the uint32_t counters are incremented without reduction.
Sub32(a, b) == a - b

----------------------------------------------------------------------------
(***************************************************************************)
(* Event pipeline: the queue, eventSeq and the admission counters, passed  *)
(* through the calls a handler makes.                                      *)
(***************************************************************************)
Pipe == [queue |-> queue, eventSeq |-> eventSeq,
         eventDropCount |-> eventDropCount,
         eventInvalidCount |-> eventInvalidCount, admitted |-> admitted]

SetPipe(p) ==
    /\ queue' = p.queue
    /\ eventSeq' = p.eventSeq
    /\ eventDropCount' = p.eventDropCount
    /\ eventInvalidCount' = p.eventInvalidCount
    /\ admitted' = p.admitted

\* Variant: an invalid text is counted and then pushed all the same.
enqueueEventCheckedFallThrough(p, json) ==
    LET p0 == IF ~isValidEventJson(json)
              THEN [p EXCEPT !.eventInvalidCount = @ + 1] ELSE p
        r == QueuePush(p0.queue, json)
    IN IF ~r.ok
       THEN [p |-> [p0 EXCEPT !.eventDropCount = @ + 1], ok |-> FALSE]
       ELSE [p |-> [p0 EXCEPT !.queue = r.q, !.admitted = Append(@, json)],
             ok |-> TRUE]

\* enqueueEventChecked: the pipeline after the call and the value returned.
enqueueEventChecked(p, json) ==
    IF ~isValidEventJson(json)
    THEN [p |-> [p EXCEPT !.eventInvalidCount = @ + 1], ok |-> FALSE]
    ELSE LET r == QueuePush(p.queue, json) IN
         IF ~r.ok
         THEN [p |-> [p EXCEPT !.eventDropCount = @ + 1], ok |-> FALSE]
         ELSE [p |-> [p EXCEPT !.queue = r.q, !.admitted = Append(@, json)],
               ok |-> TRUE]

enqueueEvent(p, json) == enqueueEventChecked(p, json).p

\* Variant: the text carries eventSeq++ instead of ++eventSeq.
buildEventPostInc(p, ts, type, dataJson, extraJson) ==
    [p |-> [p EXCEPT !.eventSeq = p.eventSeq + 1],
     json |-> buildEventJson(p.eventSeq, ts, type, dataJson, extraJson)]

\* buildEvent: ++eventSeq and the text returned.
buildEvent(p, ts, type, dataJson, extraJson) ==
    LET seq == p.eventSeq + 1 IN
    [p |-> [p EXCEPT !.eventSeq = seq],
     json |-> buildEventJson(seq, ts, type, dataJson, extraJson)]

\* enqueueEvent(buildEvent(type, data, extra))
EmitEvent(p, ts, type, dataJson, extraJson) ==
    LET b == buildEvent(p, ts, type, dataJson, extraJson) IN enqueueEvent(b.p, b.json)

----------------------------------------------------------------------------
(***************************************************************************)
(* Emitters.                                                               *)
(***************************************************************************)
emitBootEvent(p, t, connected) ==
    LET ip == IF connected THEN LocalIp ELSE ""
        data == <<"{">> \o jsonKV("fw_version", FW_VERSION, TRUE)
                \o Comma(jsonKV("chip_model", ChipModel, TRUE))
                \o Comma(jsonKV("chip_rev", ChipRevision, TRUE))
                \o Comma(jsonKV("mac", MacAddress, TRUE))
                \o Comma(jsonKV("hostname", hostname, TRUE))
                \o Comma(jsonKV("heap_free", FreeHeap, FALSE))
                \o Comma(jsonKV("sdk_version", SdkVersion, TRUE))
                \o Comma(jsonKV("ingest_url", ingestUrl, TRUE))
                \o Comma(jsonMaybeString("ip", ip))
                \o <<"}">>
    IN EmitEvent(p, t, "node.boot", data, <<>>)

\* w: [connected, ssid, state, auth, reason] as the handler left them.
emitWifiStatus(p, t, w) ==
    LET ip == IF w.connected THEN LocalIp ELSE ""
        bssid == IF w.connected THEN StaBssid ELSE ""
        data == <<"{">> \o jsonKV("connected", jsonBool(w.connected), FALSE)
                \o Comma(jsonKV("state", w.state, TRUE))
                \o Comma(jsonKV("ssid", w.ssid, TRUE))
                \o Comma(jsonMaybeString("bssid", bssid))
                \o Comma(jsonKV("channel", StaChannel, FALSE))
                \o Comma(jsonMaybeString("ip", ip))
                \o Comma(jsonKV("mac", MacAddress, TRUE))
                \o Comma(jsonKV("hostname", hostname, TRUE))
                \o Comma(jsonKV("rssi", StaRssi, FALSE))
                \o Comma(jsonKV("gw", GatewayIp, TRUE))
                \o Comma(jsonKV("mask", SubnetMask, TRUE))
                \o <<",", Q("dns"), ":", "[", Q(ZeroIp), ",", Q(ZeroIp), "]">>
                \o (IF w.auth # "" THEN Comma(jsonKV("auth", w.auth, TRUE)) ELSE <<>>)
                \o (IF w.reason >= 0
                    THEN Comma(jsonKV("reason", ToString(w.reason), FALSE)) ELSE <<>>)
                \o <<"}">>
    IN EmitEvent(p, t, "wifi.status", data, <<>>)

emitIngestOkData(count, ms) ==
    <<"{">> \o jsonKV("ok", "true", FALSE)
        \o Comma(jsonKV("batch_count", ToString(count), FALSE))
        \o Comma(jsonKV("ms", ToString(ms), FALSE))
        \o <<"}">>

emitIngestErrData(err, ms) ==
    <<"{">> \o jsonKV("ok", "false", FALSE)
        \o Comma(jsonKV("err", err, TRUE))
        \o Comma(jsonKV("ms", ToString(ms), FALSE))
        \o <<"}">>

\* The data object emitAnnounce builds (no separator is appended between
\* the node_id and ip members).
emitAnnounceData(t, ssid) ==
    <<"{">> \o jsonKV("node_id", nodeId, TRUE)
        \o jsonKV("ip", LocalIp, TRUE)
        \o Comma(jsonKV("mac", MacAddress, TRUE))
        \o Comma(jsonKV("rssi", StaRssi, FALSE))
        \o Comma(jsonKV("hostname", hostname, TRUE))
        \o Comma(jsonKV("ssid", ssid, TRUE))
        \o Comma(jsonKV("gw", GatewayIp, TRUE))
        \o Comma(jsonKV("mask", SubnetMask, TRUE))
        \o <<",", Q("dns"), ":", "[", Q(ZeroIp), ",", Q(ZeroIp), "]">>
        \o Comma(jsonKV("uptime_ms", ToString(t), FALSE))
        \o Comma(jsonKV("fw_version", FW_VERSION, TRUE))
        \o Comma(jsonKV("chip", ChipModel, TRUE))
        \o Comma(jsonKV("http_port", "80", FALSE))
        \o <<"}">>

\* emitAnnounce: the pipeline and lastAnnounceMs after the call.
emitAnnounce(p, t, connected, ssid, lastAnn) ==
    IF ~connected THEN [p |-> p, lastAnnounceMs |-> lastAnn]
    ELSE [p |-> EmitEvent(p, t, "node.announce", emitAnnounceData(t, ssid), <<>>),
          lastAnnounceMs |-> t]

----------------------------------------------------------------------------
(***************************************************************************)
(* Backoff.                                                                *)
(***************************************************************************)
\* random(0, 1000)
Jitter == 0..(OneSecond - 1)

RECURSIVE BackoffLoopUncapped(_, _, _)
\* Variant: the doubling is not held at the ceiling.
BackoffLoopUncapped(base, max, n) ==
    IF n = 0 THEN base ELSE BackoffLoopUncapped(base * 2, max, n - 1)

RECURSIVE BackoffLoop(_, _, _)
\* for (i = 0; i < n; i++) base = min<uint32_t>(base * 2U, max);
BackoffLoop(base, max, n) ==
    IF n = 0 THEN base ELSE BackoffLoop(Min(base * 2, max), max, n - 1)

computeWifiBackoffMs(fail, jitter) ==
    BackoffLoop(WIFI_RETRY_BASE_MS, WIFI_RETRY_MAX_MS, fail) + jitter

computeBackoffMs(fail, jitter) ==
    BackoffLoop(1 * OneSecond, 30 * OneSecond, fail) + jitter

\* Variant: the count is not held at 6.
BumpFailUncapped(count) == (count + 1) % UInt8

\* min<uint8_t>(count + 1, 6)
BumpFail(count) == Min(count + 1, MaxFailCount)

----------------------------------------------------------------------------
(***************************************************************************)
(* BLE dedup ring.                                                         *)
(***************************************************************************)
BleSlots == 0..(BLE_OBS_CAPACITY - 1)

EmptyObservation ==
    [mac |-> "", name |-> "", rssi |-> 0, mfg_len |-> 0, svc_count |-> 0,
     adv_flags |-> 0, last_seen_ms |-> 0, seen_count |-> 0]

\* Advertisements the scanner may report.
Devices ==
    { [addr |-> "aa:bb:cc:dd:ee:ff", addrType |-> "public", name |-> "tag",
       advFlags |-> 6, svcCount |-> 1, mfgLen |-> 0, rssi |-> -55],
      [addr |-> "aa:bb:cc:dd:ee:ff", addrType |-> "public", name |-> "tag",
       advFlags |-> 2, svcCount |-> 1, mfgLen |-> 0, rssi |-> -60],
      [addr |-> "11:22:33:44:55:66", addrType |-> "random", name |-> "",
       advFlags |-> 6, svcCount |-> 0, mfgLen |-> 4, rssi |-> -70],
      [addr |-> "11:22:33:44:55:66", addrType |-> "random", name |-> "",
       advFlags |-> 2, svcCount |-> 0, mfgLen |-> 4, rssi |-> -72] }

BleRingState ==
    [bleRing |-> bleRing, bleRingCount |-> bleRingCount,
     bleRingHead |-> bleRingHead,
     bleRingOverwriteCount |-> bleRingOverwriteCount,
     bleDedupeCount |-> bleDedupeCount]

bleMatches(obs, mac, advFlags) == obs.mac = mac /\ obs.adv_flags = advFlags

\* idx of the i-th entry, newest insertion first
BleIdx(head, i) == (head + BLE_OBS_CAPACITY - 1 - i) % BLE_OBS_CAPACITY

\* Variant: only the newest entry is compared.
BleHitsNewestOnly(r, mac, advFlags) ==
    {i \in 0..(Min(r.bleRingCount, 1) - 1) :
        LET obs == r.bleRing[BleIdx(r.bleRingHead, i)] IN
        obs.mac # "" /\ bleMatches(obs, mac, advFlags)}

\* Loop positions i at which recordBleObservation finds a match.
BleHits(r, mac, advFlags) ==
    {i \in 0..(r.bleRingCount - 1) :
        LET obs == r.bleRing[BleIdx(r.bleRingHead, i)] IN
        obs.mac # "" /\ bleMatches(obs, mac, advFlags)}

SetMin(S) == CHOOSE x \in S : \A y \in S : x <= y

\* Variant: the ring count grows on every insertion, up to the capacity, and
\* overwrites are not counted.
BleInsertUncounted(r, dev, t) ==
    [r EXCEPT !.bleRingCount = Min(@ + 1, BLE_OBS_CAPACITY),
              !.bleRing[r.bleRingHead] =
                  [mac |-> dev.addr, name |-> dev.name, rssi |-> dev.rssi,
                   mfg_len |-> dev.mfgLen, svc_count |-> dev.svcCount,
                   adv_flags |-> dev.advFlags, last_seen_ms |-> t,
                   seen_count |-> 1],
              !.bleRingHead = (r.bleRingHead + 1) % BLE_OBS_CAPACITY]

\* recordBleObservation after its lookup loop: the head slot is taken.
BleInsert(r, dev, t) ==
    [r EXCEPT !.bleRingOverwriteCount =
                  IF r.bleRingCount = BLE_OBS_CAPACITY THEN @ + 1 ELSE @,
              !.bleRingCount =
                  IF r.bleRingCount = BLE_OBS_CAPACITY THEN @ ELSE @ + 1,
              !.bleRing[r.bleRingHead] =
                  [mac |-> dev.addr, name |-> dev.name, rssi |-> dev.rssi,
                   mfg_len |-> dev.mfgLen, svc_count |-> dev.svcCount,
                   adv_flags |-> dev.advFlags, last_seen_ms |-> t,
                   seen_count |-> 1],
              !.bleRingHead = (r.bleRingHead + 1) % BLE_OBS_CAPACITY]

recordBleObservation(r, dev, t) ==
    LET hits == BleHits(r, dev.addr, dev.advFlags) IN
    IF hits # {}
    THEN LET idx == BleIdx(r.bleRingHead, SetMin(hits))
             obs == r.bleRing[idx]
         IN IF Sub32(t, obs.last_seen_ms) <= BLE_DEDUPE_MS
            THEN [r EXCEPT !.bleRing[idx] =
                               [obs EXCEPT !.rssi = dev.rssi,
                                           !.last_seen_ms = t,
                                           !.seen_count = @ + 1],
                           !.bleDedupeCount = @ + 1]
            ELSE [r EXCEPT !.bleRing[idx] =
                               [obs EXCEPT !.rssi = dev.rssi,
                                           !.name = dev.name,
                                           !.svc_count = dev.svcCount,
                                           !.mfg_len = dev.mfgLen,
                                           !.adv_flags = dev.advFlags,
                                           !.last_seen_ms = t,
                                           !.seen_count = @ + 1]]
    ELSE BleInsert(r, dev, t)

SetBleRing(r) ==
    /\ bleRing' = r.bleRing
    /\ bleRingCount' = r.bleRingCount
    /\ bleRingHead' = r.bleRingHead
    /\ bleRingOverwriteCount' = r.bleRingOverwriteCount
    /\ bleDedupeCount' = r.bleDedupeCount

\* The ble.seen event onResult builds after recordBleObservation.
emitBleSeen(p, t, dev) ==
    LET data == <<"{">> \o jsonKV("addr", dev.addr, TRUE)
                \o Comma(jsonKV("rssi", ToString(dev.rssi), FALSE))
                \o Comma(jsonKV("addr_type", dev.addrType, TRUE))
                \o Comma(jsonKV("flags", ToString(dev.advFlags), FALSE))
                \o <<"}">>
        extra == jsonKV("mac", dev.addr, TRUE) \o <<",">>
                 \o jsonKV("rssi", ToString(dev.rssi), FALSE)
    IN EmitEvent(p, t, "ble.seen", data, extra)

\* Variant: the cap test is count > BLE_MAX_PER_SECOND.
BleCappedOffByOne(count) == count > BLE_MAX_PER_SECOND

\* if (bleCountThisSecond >= BLE_MAX_PER_SECOND) return;
BleCapped(count) == count >= BLE_MAX_PER_SECOND

\* Variant: the window is begun anew by every callback.
BleWindowEveryCall(t, start, count) == [start |-> t, count |-> 0]

\* The per-second window after the check at the head of onResult.
BleWindow(t, start, count) ==
    IF Sub32(t, start) >= OneSecond
    THEN [start |-> t, count |-> 0]
    ELSE [start |-> start, count |-> count]

----------------------------------------------------------------------------
(***************************************************************************)
(* Wi-Fi AP cache.                                                         *)
(***************************************************************************)
ApSlots == 0..(WIFI_AP_MAX_RESULTS - 1)

\* WifiApSeenCache, zero-initialised
EmptyApEntry == [valid |-> FALSE, bssid |-> "00:00:00:00:00:00", last_emit_ms |-> 0]

\* BSSIDs a scan may report.
Bssids == {"0a:00:00:00:00:01", "0a:00:00:00:00:02", "0a:00:00:00:00:03"}

ApState == [cache |-> wifiApCache, dedupe |-> wifiApDedupeCount]

\* The loop of shouldEmitAp from slot i on: the slot holding bssid (-1 when
\* the loop ends without one), and emptyIdx and oldestIdx as the loop has
\* them when it ends.
RECURSIVE ApScan(_, _, _, _, _, _)
ApScan(cache, bssid, i, emptyIdx, oldestIdx, oldestMs) ==
    IF i >= WIFI_AP_MAX_RESULTS
    THEN [hit |-> -1, emptyIdx |-> emptyIdx, oldestIdx |-> oldestIdx]
    ELSE LET entry == cache[i] IN
         IF ~entry.valid
         THEN ApScan(cache, bssid, i + 1,
                     IF emptyIdx < 0 THEN i ELSE emptyIdx, oldestIdx, oldestMs)
         ELSE IF entry.bssid = bssid
         THEN [hit |-> i, emptyIdx |-> emptyIdx, oldestIdx |-> oldestIdx]
         ELSE IF oldestMs = 0 \/ entry.last_emit_ms < oldestMs
         THEN ApScan(cache, bssid, i + 1, emptyIdx, i, entry.last_emit_ms)
         ELSE ApScan(cache, bssid, i + 1, emptyIdx, oldestIdx, oldestMs)

\* shouldEmitAp: the cache and the dedup counter after the call, and the
\* value returned.
shouldEmitAp(a, bssid, t) ==
    LET s == ApScan(a.cache, bssid, 0, -1, 0, 0) IN
    IF s.hit >= 0
    THEN IF Sub32(t, a.cache[s.hit].last_emit_ms) < WIFI_AP_DEDUPE_MS
         THEN [a |-> [a EXCEPT !.dedupe = @ + 1], ok |-> FALSE]
         ELSE [a |-> [a EXCEPT !.cache[s.hit].last_emit_ms = t], ok |-> TRUE]
    ELSE LET idx == IF s.emptyIdx >= 0 THEN s.emptyIdx ELSE s.oldestIdx IN
         [a |-> [a EXCEPT !.cache[idx] =
                     [valid |-> TRUE, bssid |-> bssid, last_emit_ms |-> t]],
          ok |-> TRUE]

----------------------------------------------------------------------------
(***************************************************************************)
(* Initial state: the globals as constructed, before setup().              *)
(***************************************************************************)
StoredCreds == {[ssid |-> "", pass |-> ""], [ssid |-> "lab", pass |-> "secret"]}

Init ==
    /\ now = 0
    /\ pc = "boot"
    /\ queue = EmptyQueue
    /\ eventSeq = 0 /\ eventDropCount = 0 /\ eventInvalidCount = 0
    /\ nextSendAtMs = 0 /\ failCount = 0
    /\ ingestOkCount = 0 /\ ingestErrCount = 0
    /\ lastIngestOkMs = 0 /\ lastIngestErrMs = 0 /\ lastIngestErr = ""
    /\ lastIngestOkEventMs = 0 /\ lastIngestErrEventMs = 0
    /\ postBatch = 0 /\ postPayload = <<>> /\ postStart = 0
    /\ runtimeSsid = "" /\ runtimePass = ""
    /\ wlConnected = FALSE /\ staBegun = FALSE
    /\ portalActive = FALSE /\ serverStarted = FALSE
    /\ wifiState = "disconnected" /\ wifiFailCount = 0
    /\ nextWifiAttemptMs = 0 /\ wifiConnectStartMs = 0
    /\ lastDisconnectReason = -1 /\ lastAuthMode = "" /\ lastAnnounceMs = 0
    /\ bleRing = [i \in BleSlots |-> EmptyObservation]
    /\ bleRingCount = 0 /\ bleRingHead = 0
    /\ bleRingOverwriteCount = 0 /\ bleDedupeCount = 0
    /\ bleSeenCount = 0 /\ lastBleResultMs = 0 /\ lastBleRestartMs = 0
    /\ bleScanRestartCount = 0
    /\ bleSecondStart = 0 /\ bleCountThisSecond = 0
    /\ bleScanning = FALSE
    /\ admitted = <<>> /\ delivered = <<>> /\ postEntries = <<>>
    /\ serialLog = <<>> /\ bleEmitLog = <<>>
    /\ connectingSinceMs = 0 /\ gotIpCount = 0 /\ announceBuilt = 0
    /\ wifiApCache = [i \in ApSlots |-> EmptyApEntry]
    /\ wifiApDedupeCount = 0 /\ apPermit = FALSE
    /\ wifiApSeenCount = 0 /\ wifiApDropCount = 0
    /\ pendingJson = <<>>
    /\ bleScanStallCount = 0 /\ stallRestartMs = 0 /\ watchdogCalls = 0
    /\ saveStatus = 0
    /\ loopAt = "handleClient"
    /\ lastWifiConnected = FALSE /\ lastIpStr = "" /\ lastHeartbeatMs = 0
    /\ prefs \in StoredCreds
    /\ restartCount = 0

\* ESP.restart(): the globals are constructed anew and setup() runs again;
\* the preferences are kept.
EspRestart ==
    /\ now' = 0
    /\ pc' = "boot"
    /\ queue' = EmptyQueue
    /\ eventSeq' = 0 /\ eventDropCount' = 0 /\ eventInvalidCount' = 0
    /\ nextSendAtMs' = 0 /\ failCount' = 0
    /\ ingestOkCount' = 0 /\ ingestErrCount' = 0
    /\ lastIngestOkMs' = 0 /\ lastIngestErrMs' = 0 /\ lastIngestErr' = ""
    /\ lastIngestOkEventMs' = 0 /\ lastIngestErrEventMs' = 0
    /\ postBatch' = 0 /\ postPayload' = <<>> /\ postStart' = 0
    /\ runtimeSsid' = "" /\ runtimePass' = ""
    /\ wlConnected' = FALSE /\ staBegun' = FALSE
    /\ portalActive' = FALSE /\ serverStarted' = FALSE
    /\ wifiState' = "disconnected" /\ wifiFailCount' = 0
    /\ nextWifiAttemptMs' = 0 /\ wifiConnectStartMs' = 0
    /\ lastDisconnectReason' = -1 /\ lastAuthMode' = "" /\ lastAnnounceMs' = 0
    /\ bleRing' = [i \in BleSlots |-> EmptyObservation]
    /\ bleRingCount' = 0 /\ bleRingHead' = 0
    /\ bleRingOverwriteCount' = 0 /\ bleDedupeCount' = 0
    /\ bleSeenCount' = 0 /\ lastBleResultMs' = 0 /\ lastBleRestartMs' = 0
    /\ bleScanRestartCount' = 0
    /\ bleSecondStart' = 0 /\ bleCountThisSecond' = 0
    /\ bleScanning' = FALSE
    /\ admitted' = <<>> /\ delivered' = <<>> /\ postEntries' = <<>>
    /\ serialLog' = <<>> /\ bleEmitLog' = <<>>
    /\ connectingSinceMs' = 0 /\ gotIpCount' = 0 /\ announceBuilt' = 0
    /\ wifiApCache' = [i \in ApSlots |-> EmptyApEntry]
    /\ wifiApDedupeCount' = 0 /\ apPermit' = FALSE
    /\ wifiApSeenCount' = 0 /\ wifiApDropCount' = 0
    /\ pendingJson' = <<>>
    /\ bleScanStallCount' = 0 /\ stallRestartMs' = 0 /\ watchdogCalls' = 0
    /\ loopAt' = "handleClient"
    /\ lastWifiConnected' = FALSE /\ lastIpStr' = "" /\ lastHeartbeatMs' = 0
    /\ restartCount' = restartCount + 1

\* What emitWifiStatus reads, given the values the handler has just set.
WifiView(connected, begun, ssid, state, auth, reason) ==
    [connected |-> connected, ssid |-> IF begun THEN ssid ELSE "",
     state |-> state, auth |-> auth, reason |-> reason]

----------------------------------------------------------------------------
(***************************************************************************)
(* The clock.                                                              *)
(***************************************************************************)
Tick ==
    /\ now < MaxNow
    /\ now' = now + 1
    /\ UNCHANGED <<pc, queueVars, ingestVars, credVars, wifiVars, bleVars>>
    /\ UNCHANGED <<mainVars, apVars, loopVars, histVars>>

\* A minute and a tick of uptime during which no handler changes the state.
TickMinute ==
    /\ pc = "loop"
    /\ now < MaxMinutes * (60 * OneSecond + 1)
    /\ now' = now + 60 * OneSecond + 1
    /\ UNCHANGED <<pc, queueVars, ingestVars, credVars, wifiVars, bleVars>>
    /\ UNCHANGED <<mainVars, apVars, loopVars, histVars>>

\* Uptime advancing to the time of the next ingest attempt, no handler
\* changing the state meanwhile.
TickRetry ==
    /\ pc = "loop"
    /\ now < nextSendAtMs
    /\ now <= 2 * (30 * OneSecond)
    /\ now' = nextSendAtMs
    /\ UNCHANGED <<pc, queueVars, ingestVars, credVars, wifiVars, bleVars>>
    /\ UNCHANGED <<mainVars, apVars, loopVars, histVars>>

(***************************************************************************)
(* setup()                                                                 *)
(***************************************************************************)
Setup ==
    /\ pc = "boot"
    /\ pc' = "loop"
    /\ runtimeSsid' = prefs.ssid
    /\ runtimePass' = prefs.pass
    /\ LET creds == prefs.ssid # ""
           p1 == IF creds
                 THEN emitWifiStatus(Pipe, now,
                          WifiView(wlConnected, TRUE, prefs.ssid, "connecting",
                                   lastAuthMode, lastDisconnectReason))
                 ELSE Pipe
       IN /\ portalActive' = IF creds THEN portalActive ELSE TRUE
          /\ staBegun' = creds
          /\ wifiState' = IF creds THEN "connecting" ELSE wifiState
          /\ SetPipe(emitBootEvent(p1, now, wlConnected))
    /\ serverStarted' = TRUE
    /\ bleScanning' = TRUE
    /\ lastBleRestartMs' = now
    /\ bleScanRestartCount' = bleScanRestartCount + 1
    /\ UNCHANGED <<now, ingestVars, prefs, wlConnected, wifiFailCount,
                   nextWifiAttemptMs, wifiConnectStartMs, lastDisconnectReason,
                   lastAuthMode, lastAnnounceMs, bleRing, bleRingCount,
                   bleRingHead, bleRingOverwriteCount, bleDedupeCount,
                   bleSeenCount, lastBleResultMs, bleSecondStart,
                   bleCountThisSecond, bleEmitLog>>
    /\ connectingSinceMs' = IF prefs.ssid # "" THEN now ELSE connectingSinceMs
    /\ UNCHANGED <<mainVars, apVars, loopVars, gotIpCount, announceBuilt, restartCount>>

(***************************************************************************)
(* setup() statement by statement from startBLE() on: the scan callback    *)
(* runs in the BLE host task and may be called between any two statements  *)
(* of the main task.  pc is the statement the main task is at.             *)
(***************************************************************************)
\* setup() up to and including startBLE()
SetupToStartBLE ==
    /\ pc = "boot"
    /\ pc' = "emitBoot"
    /\ runtimeSsid' = prefs.ssid
    /\ runtimePass' = prefs.pass
    /\ LET creds == prefs.ssid # ""
           p1 == IF creds
                 THEN emitWifiStatus(Pipe, now,
                          WifiView(wlConnected, TRUE, prefs.ssid, "connecting",
                                   lastAuthMode, lastDisconnectReason))
                 ELSE Pipe
       IN /\ portalActive' = IF creds THEN portalActive ELSE TRUE
          /\ staBegun' = creds
          /\ wifiState' = IF creds THEN "connecting" ELSE wifiState
          /\ SetPipe(p1)
    /\ serverStarted' = TRUE
    /\ bleScanning' = TRUE
    /\ lastBleRestartMs' = now
    /\ bleScanRestartCount' = bleScanRestartCount + 1
    /\ UNCHANGED <<now, ingestVars, prefs, wlConnected, wifiFailCount,
                   nextWifiAttemptMs, wifiConnectStartMs, lastDisconnectReason,
                   lastAuthMode, lastAnnounceMs, bleRing, bleRingCount,
                   bleRingHead, bleRingOverwriteCount, bleDedupeCount,
                   bleSeenCount, lastBleResultMs, bleSecondStart,
                   bleCountThisSecond, bleEmitLog>>
    /\ connectingSinceMs' = IF prefs.ssid # "" THEN now ELSE connectingSinceMs
    /\ UNCHANGED <<mainVars, apVars, loopVars, gotIpCount, announceBuilt,
                   restartCount>>

\* emitBootEvent(): the argument buildEvent("node.boot", data) is evaluated
BootBuildEvent ==
    /\ pc = "emitBoot"
    /\ pc' = "pushCheck"
    /\ LET e == emitBootEvent([Pipe EXCEPT !.queue = EmptyQueue], now, wlConnected)
       IN /\ eventSeq' = e.eventSeq
          /\ pendingJson' = QueueFront(e.queue).json
    /\ UNCHANGED <<bleScanStallCount, stallRestartMs, watchdogCalls,
                   saveStatus>>
    /\ UNCHANGED <<now, queue, eventDropCount, eventInvalidCount, admitted,
                   ingestVars, credVars, wifiVars, bleVars, apVars, loopVars,
                   histVars>>

\* enqueueEventChecked(json): the validity test, then the test push() begins
\* with
PushCheck ==
    /\ pc = "pushCheck"
    /\ IF ~isValidEventJson(pendingJson)
       THEN /\ eventInvalidCount' = eventInvalidCount + 1
            /\ pc' = "loop" /\ pendingJson' = <<>>
            /\ UNCHANGED eventDropCount
       ELSE IF queue.count_ >= EVENT_QUEUE_CAPACITY
       THEN /\ eventDropCount' = eventDropCount + 1
            /\ pc' = "loop" /\ pendingJson' = <<>>
            /\ UNCHANGED eventInvalidCount
       ELSE /\ pc' = "pushWrite"
            /\ UNCHANGED <<eventDropCount, eventInvalidCount, pendingJson>>
    /\ UNCHANGED <<bleScanStallCount, stallRestartMs, watchdogCalls,
                   saveStatus>>
    /\ UNCHANGED <<now, queue, eventSeq, admitted, ingestVars, credVars,
                   wifiVars, bleVars, apVars, loopVars, histVars>>

\* buffer_[tail_] = {json, false};
PushWrite ==
    /\ pc = "pushWrite"
    /\ pc' = "pushTail"
    /\ queue' = [queue EXCEPT !.buffer_[queue.tail_] =
                                 [json |-> pendingJson, logged |-> FALSE]]
    /\ UNCHANGED <<now, eventSeq, eventDropCount, eventInvalidCount, admitted,
                   ingestVars, credVars, wifiVars, bleVars, apVars, loopVars,
                   histVars, mainVars>>

\* tail_ = (tail_ + 1) % capacity_;
PushTail ==
    /\ pc = "pushTail"
    /\ pc' = "pushCount"
    /\ queue' = [queue EXCEPT !.tail_ = (queue.tail_ + 1) % EVENT_QUEUE_CAPACITY]
    /\ UNCHANGED <<now, eventSeq, eventDropCount, eventInvalidCount, admitted,
                   ingestVars, credVars, wifiVars, bleVars, apVars, loopVars,
                   histVars, mainVars>>

\* count_++; return true;  and setup() returns
PushCount ==
    /\ pc = "pushCount"
    /\ pc' = "loop"
    /\ queue' = [queue EXCEPT !.count_ = queue.count_ + 1]
    /\ admitted' = Append(admitted, pendingJson)
    /\ pendingJson' = <<>>
    /\ UNCHANGED <<bleScanStallCount, stallRestartMs, watchdogCalls,
                   saveStatus>>
    /\ UNCHANGED <<now, eventSeq, eventDropCount, eventInvalidCount,
                   ingestVars, credVars, wifiVars, bleVars, apVars, loopVars,
                   histVars>>

(***************************************************************************)
(* AdvertisedCallback::onResult                                            *)
(***************************************************************************)
BleOnResult(dev) ==
    /\ pc # "boot"
    /\ bleScanning
    /\ eventSeq < MaxSeq
    /\ lastBleResultMs' = now
    /\ LET w == BleWindow(now, bleSecondStart, bleCountThisSecond) IN
       /\ bleSecondStart' = w.start
       /\ IF BleCapped(w.count)
          THEN /\ bleCountThisSecond' = w.count
               /\ UNCHANGED <<queueVars, bleRing, bleRingCount, bleRingHead,
                              bleRingOverwriteCount, bleDedupeCount,
                              bleSeenCount, bleEmitLog>>
          ELSE /\ bleCountThisSecond' = (w.count + 1) % UInt8
               /\ bleSeenCount' = bleSeenCount + 1
               /\ SetBleRing(recordBleObservation(BleRingState, dev, now))
               /\ SetPipe(emitBleSeen(Pipe, now, dev))
               /\ bleEmitLog' = Append(bleEmitLog, now)
    /\ UNCHANGED <<now, pc, ingestVars, credVars, wifiVars, lastBleRestartMs,
                   bleScanRestartCount, bleScanning>>
    /\ UNCHANGED <<mainVars, apVars, loopVars, histVars>>


(***************************************************************************)
(* handleWifiEvent, one action per event kind.  The platform updates the   *)
(* station status before it calls the handler.                             *)
(***************************************************************************)
DisconnectReasons == {15, 201}

WifiStaDisconnected(reason, jitter) ==
    /\ pc # "boot"
    /\ staBegun
    /\ eventSeq < MaxSeq
    /\ wlConnected' = FALSE
    /\ lastDisconnectReason' = reason
    /\ wifiState' = "backoff"
    /\ wifiFailCount' = BumpFail(wifiFailCount)
    /\ nextWifiAttemptMs' = now + computeWifiBackoffMs(wifiFailCount', jitter)
    /\ wifiConnectStartMs' = 0
    /\ SetPipe(emitWifiStatus(Pipe, now,
                   WifiView(FALSE, staBegun, runtimeSsid, "backoff",
                            lastAuthMode, reason)))
    /\ UNCHANGED <<now, pc, ingestVars, credVars, staBegun, portalActive,
                   serverStarted, lastAuthMode, lastAnnounceMs, bleVars>>
    /\ UNCHANGED <<mainVars, apVars, loopVars, histVars>>

WifiStaGotIp ==
    /\ pc # "boot"
    /\ staBegun /\ ~wlConnected
    /\ eventSeq < MaxSeq
    /\ wlConnected' = TRUE
    /\ wifiState' = "connected"
    /\ wifiFailCount' = 0
    /\ lastAuthMode' = StaAuthMode
    /\ LET p1 == emitWifiStatus(Pipe, now,
                     WifiView(TRUE, staBegun, runtimeSsid, "connected",
                              StaAuthMode, lastDisconnectReason))
           a == emitAnnounce(p1, now, TRUE, runtimeSsid, lastAnnounceMs)
       IN /\ SetPipe(a.p)
          /\ lastAnnounceMs' = a.lastAnnounceMs
    /\ UNCHANGED <<now, pc, ingestVars, credVars, staBegun, portalActive,
                   serverStarted, nextWifiAttemptMs, wifiConnectStartMs,
                   lastDisconnectReason, bleVars>>
    /\ gotIpCount' = gotIpCount + 1
    /\ announceBuilt' = announceBuilt + 1
    /\ UNCHANGED <<mainVars, apVars, loopVars, connectingSinceMs, restartCount>>

WifiStaConnected ==
    /\ pc # "boot"
    /\ staBegun /\ ~wlConnected
    /\ eventSeq < MaxSeq
    /\ wifiState' = "connecting"
    /\ SetPipe(emitWifiStatus(Pipe, now,
                   WifiView(wlConnected, staBegun, runtimeSsid, "connecting",
                            lastAuthMode, lastDisconnectReason)))
    /\ UNCHANGED <<now, pc, ingestVars, credVars, wlConnected, staBegun,
                   portalActive, serverStarted, wifiFailCount,
                   nextWifiAttemptMs, wifiConnectStartMs, lastDisconnectReason,
                   lastAuthMode, lastAnnounceMs, bleVars>>
    /\ connectingSinceMs' =
           IF wifiState' = "connecting" /\ wifiState # "connecting"
           THEN now ELSE connectingSinceMs
    /\ UNCHANGED <<mainVars, apVars, loopVars, gotIpCount, announceBuilt, restartCount>>

(***************************************************************************)
(* ensureWiFi(), called from loop(); the calls that return at once are     *)
(* left out.                                                               *)
(***************************************************************************)
\* ensureWiFi(): what the call does, wherever loop() makes it.
ensureWiFi ==
    /\ IF wlConnected
       THEN UNCHANGED <<queueVars, staBegun, portalActive, serverStarted,
                        wifiState, wifiConnectStartMs>>
       ELSE IF runtimeSsid = ""
       THEN /\ portalActive' = TRUE
            /\ serverStarted' = IF portalActive THEN serverStarted ELSE TRUE
            /\ UNCHANGED <<queueVars, staBegun, wifiState, wifiConnectStartMs>>
       ELSE IF now < nextWifiAttemptMs
       THEN /\ wifiState' = "backoff"
            /\ IF wifiState # "backoff"
               THEN SetPipe(emitWifiStatus(Pipe, now,
                                WifiView(wlConnected, staBegun, runtimeSsid,
                                         "backoff", lastAuthMode,
                                         lastDisconnectReason)))
               ELSE UNCHANGED queueVars
            /\ UNCHANGED <<staBegun, portalActive, serverStarted,
                           wifiConnectStartMs>>
       ELSE /\ staBegun' = TRUE
            /\ wifiState' = "connecting"
            /\ wifiConnectStartMs' = now
            /\ SetPipe(emitWifiStatus(Pipe, now,
                           WifiView(wlConnected, TRUE, runtimeSsid, "connecting",
                                    lastAuthMode, lastDisconnectReason)))
            /\ UNCHANGED <<portalActive, serverStarted>>
    /\ connectingSinceMs' =
           IF wifiState' = "connecting" /\ wifiState # "connecting"
           THEN now ELSE connectingSinceMs
    /\ UNCHANGED <<ingestVars, credVars, wlConnected, wifiFailCount,
                   nextWifiAttemptMs, lastDisconnectReason, lastAuthMode,
                   lastAnnounceMs, bleVars, apVars, mainVars, gotIpCount,
                   announceBuilt,
                   restartCount>>

\* A call of ensureWiFi() that changes the state.
EnsureWiFi ==
    /\ pc = "loop"
    /\ ~wlConnected
    /\ eventSeq < MaxSeq
    /\ runtimeSsid = "" => ~portalActive
    /\ (runtimeSsid # "" /\ now < nextWifiAttemptMs) => wifiState # "backoff"
    /\ ensureWiFi
    /\ UNCHANGED <<now, pc, loopVars>>

(***************************************************************************)
(* trySendQueued(), called from loop(): the offline branch, and the online *)
(* branch in two steps around http.POST, during which callbacks run.       *)
(***************************************************************************)
\* logBatchIfNeeded: the queue and the serial log after the call.
RECURSIVE logBatchIfNeeded(_, _, _, _)
logBatchIfNeeded(q, log, i, batch) ==
    IF i >= batch THEN [q |-> q, log |-> log]
    ELSE LET idx == QueueAtIdx(q, i)
             entry == q.buffer_[idx]
         IN IF ~entry.logged
            THEN logBatchIfNeeded([q EXCEPT !.buffer_[idx].logged = TRUE],
                                  Append(log, entry.json), i + 1, batch)
            ELSE logBatchIfNeeded(q, log, i + 1, batch)

\* The body trySendQueued posts for a batch of the first `batch` entries.
RECURSIVE PayloadTail(_, _, _)
PayloadTail(q, i, batch) ==
    IF i >= batch THEN <<>>
    ELSE (IF i > 0 THEN <<",">> ELSE <<>>) \o QueueAt(q, i).json
         \o PayloadTail(q, i + 1, batch)

BuildPayload(q, batch) ==
    IF batch <= 1 THEN QueueFront(q).json
    ELSE <<"[">> \o PayloadTail(q, 0, batch) \o <<"]">>

\* Variant: no upper limit on the status code.
IngestOkLoose(code) == code >= 200

\* bool ok = (code >= 200 && code < 300)
IngestOk(code) == code >= 200 /\ code < 300

\* Values http.POST returns: status codes, or a negative transport error.
PostCodes == {200, 299, 300, -1}

TrySendOffline(jitter) ==
    /\ pc = "loop"
    /\ ~QueueEmpty(queue)
    /\ ~(now < nextSendAtMs)
    /\ ~wlConnected
    /\ LET l == logBatchIfNeeded(queue, serialLog, 0, 1) IN
       /\ queue' = l.q
       /\ serialLog' = l.log
    /\ nextSendAtMs' = now + computeBackoffMs(failCount, jitter)
    /\ failCount' = BumpFail(failCount)
    /\ UNCHANGED <<now, pc, eventSeq, eventDropCount, eventInvalidCount,
                   admitted, ingestOkCount, ingestErrCount, lastIngestOkMs,
                   lastIngestErrMs, lastIngestErr, lastIngestOkEventMs,
                   lastIngestErrEventMs, postBatch, postPayload, postStart,
                   postEntries, delivered, credVars, wifiVars, bleVars>>
    /\ loopAt' = (IF loopAt = "send" THEN "delay" ELSE loopAt)
    /\ UNCHANGED <<mainVars, apVars, histVars, lastWifiConnected, lastIpStr,
                   lastHeartbeatMs>>

\* Variant: the POST is begun whether or not the station is connected.
TrySendBeginAnyLink ==
    /\ pc = "loop"
    /\ ~QueueEmpty(queue)
    /\ ~(now < nextSendAtMs)
    /\ pc' = "post"
    /\ postBatch' = Min(QueueSize(queue), INGEST_BATCH_SIZE)
    /\ postPayload' = BuildPayload(queue, postBatch')
    /\ postEntries' = [i \in 1..postBatch' |-> QueueAt(queue, i - 1).json]
    /\ postStart' = now
    /\ UNCHANGED <<now, queueVars, nextSendAtMs, failCount, ingestOkCount,
                   ingestErrCount, lastIngestOkMs, lastIngestErrMs,
                   lastIngestErr, lastIngestOkEventMs, lastIngestErrEventMs,
                   delivered, serialLog, credVars, wifiVars, bleVars>>
    /\ UNCHANGED <<mainVars, apVars, loopVars, histVars>>

\* Variant: the next-send gate is inverted, the POST is begun only before
\* the next-send time.
TrySendBeginEarly ==
    /\ pc = "loop"
    /\ ~QueueEmpty(queue)
    /\ now < nextSendAtMs
    /\ wlConnected
    /\ pc' = "post"
    /\ postBatch' = Min(QueueSize(queue), INGEST_BATCH_SIZE)
    /\ postPayload' = BuildPayload(queue, postBatch')
    /\ postEntries' = [i \in 1..postBatch' |-> QueueAt(queue, i - 1).json]
    /\ postStart' = now
    /\ UNCHANGED <<now, queueVars, nextSendAtMs, failCount, ingestOkCount,
                   ingestErrCount, lastIngestOkMs, lastIngestErrMs,
                   lastIngestErr, lastIngestOkEventMs, lastIngestErrEventMs,
                   delivered, serialLog, credVars, wifiVars, bleVars>>
    /\ UNCHANGED <<mainVars, apVars, loopVars, histVars>>

TrySendBegin ==
    /\ pc = "loop"
    /\ ~QueueEmpty(queue)
    /\ ~(now < nextSendAtMs)
    /\ wlConnected
    /\ pc' = "post"
    /\ postBatch' = Min(QueueSize(queue), INGEST_BATCH_SIZE)
    /\ postPayload' = BuildPayload(queue, postBatch')
    /\ postEntries' = [i \in 1..postBatch' |-> QueueAt(queue, i - 1).json]
    /\ postStart' = now
    /\ UNCHANGED <<now, queueVars, nextSendAtMs, failCount, ingestOkCount,
                   ingestErrCount, lastIngestOkMs, lastIngestErrMs,
                   lastIngestErr, lastIngestOkEventMs, lastIngestErrEventMs,
                   delivered, serialLog, credVars, wifiVars, bleVars>>
    /\ UNCHANGED <<mainVars, apVars, loopVars, histVars>>

\* Variant: every 2xx response emits ingest.ok.
TrySendCompleteUnthrottled(code, jitter) ==
    /\ pc = "post"
    /\ pc' = "loop"
    /\ LET ms == Sub32(now, postStart) IN
       IF IngestOk(code)
       THEN /\ failCount' = 0
            /\ ingestOkCount' = ingestOkCount + 1
            /\ lastIngestOkMs' = now
            /\ lastIngestErr' = ""
            /\ LET popped == [Pipe EXCEPT !.queue = QueuePopN(queue, postBatch)]
                   emit == TRUE
               IN /\ SetPipe(IF emit
                             THEN EmitEvent(popped, now, "ingest.ok",
                                            emitIngestOkData(postBatch, ms), <<>>)
                             ELSE popped)
                  /\ lastIngestOkEventMs' =
                         IF emit THEN now ELSE lastIngestOkEventMs
            /\ delivered' = delivered \o postEntries
            /\ UNCHANGED <<nextSendAtMs, ingestErrCount, lastIngestErrMs,
                           lastIngestErrEventMs, serialLog>>
       ELSE /\ LET l == logBatchIfNeeded(queue, serialLog, 0, postBatch)
                   err == ToString(code)
                   emit == Len(err) = 0 \/ err # err
                           \/ Sub32(now, lastIngestErrEventMs) > 60 * OneSecond
               IN /\ serialLog' = l.log
                  /\ lastIngestErr' = err
                  /\ SetPipe(IF emit
                             THEN EmitEvent([Pipe EXCEPT !.queue = l.q], now,
                                            "ingest.err",
                                            emitIngestErrData(err, ms),
                                            jsonKV("err", err, TRUE))
                             ELSE [Pipe EXCEPT !.queue = l.q])
                  /\ lastIngestErrEventMs' =
                         IF emit THEN now ELSE lastIngestErrEventMs
            /\ failCount' = BumpFail(failCount)
            /\ nextSendAtMs' = now + computeBackoffMs(failCount', jitter)
            /\ ingestErrCount' = ingestErrCount + 1
            /\ lastIngestErrMs' = now
            /\ UNCHANGED <<ingestOkCount, lastIngestOkMs, lastIngestOkEventMs,
                           delivered>>
    /\ postBatch' = 0 /\ postPayload' = <<>> /\ postEntries' = <<>>
    /\ postStart' = postStart
    /\ UNCHANGED <<now, credVars, wifiVars, bleVars>>
    /\ loopAt' = (IF loopAt = "send" THEN "delay" ELSE loopAt)
    /\ UNCHANGED <<mainVars, apVars, histVars, lastWifiConnected, lastIpStr,
                   lastHeartbeatMs>>

TrySendComplete(code, jitter) ==
    /\ pc = "post"
    /\ pc' = "loop"
    /\ LET ms == Sub32(now, postStart) IN
       IF IngestOk(code)
       THEN /\ failCount' = 0
            /\ ingestOkCount' = ingestOkCount + 1
            /\ lastIngestOkMs' = now
            /\ lastIngestErr' = ""
            /\ LET popped == [Pipe EXCEPT !.queue = QueuePopN(queue, postBatch)]
                   emit == Len(lastIngestErr') > 0
                           \/ Sub32(now, lastIngestOkEventMs) > 60 * OneSecond
               IN /\ SetPipe(IF emit
                             THEN EmitEvent(popped, now, "ingest.ok",
                                            emitIngestOkData(postBatch, ms), <<>>)
                             ELSE popped)
                  /\ lastIngestOkEventMs' =
                         IF emit THEN now ELSE lastIngestOkEventMs
            /\ delivered' = delivered \o postEntries
            /\ UNCHANGED <<nextSendAtMs, ingestErrCount, lastIngestErrMs,
                           lastIngestErrEventMs, serialLog>>
       ELSE /\ LET l == logBatchIfNeeded(queue, serialLog, 0, postBatch)
                   err == ToString(code)
                   emit == Len(err) = 0 \/ err # err
                           \/ Sub32(now, lastIngestErrEventMs) > 60 * OneSecond
               IN /\ serialLog' = l.log
                  /\ lastIngestErr' = err
                  /\ SetPipe(IF emit
                             THEN EmitEvent([Pipe EXCEPT !.queue = l.q], now,
                                            "ingest.err",
                                            emitIngestErrData(err, ms),
                                            jsonKV("err", err, TRUE))
                             ELSE [Pipe EXCEPT !.queue = l.q])
                  /\ lastIngestErrEventMs' =
                         IF emit THEN now ELSE lastIngestErrEventMs
            /\ failCount' = BumpFail(failCount)
            /\ nextSendAtMs' = now + computeBackoffMs(failCount', jitter)
            /\ ingestErrCount' = ingestErrCount + 1
            /\ lastIngestErrMs' = now
            /\ UNCHANGED <<ingestOkCount, lastIngestOkMs, lastIngestOkEventMs,
                           delivered>>
    /\ postBatch' = 0 /\ postPayload' = <<>> /\ postEntries' = <<>>
    /\ postStart' = postStart
    /\ UNCHANGED <<now, credVars, wifiVars, bleVars>>
    /\ loopAt' = (IF loopAt = "send" THEN "delay" ELSE loopAt)
    /\ UNCHANGED <<mainVars, apVars, histVars, lastWifiConnected, lastIpStr,
                   lastHeartbeatMs>>

----------------------------------------------------------------------------
(***************************************************************************)
(* handlePortalSave: POST /save, a route startCaptivePortal registers,     *)
(* dispatched by server.handleClient() at the top of loop().               *)
(***************************************************************************)
FormSsids == {"", "lab"}
FormPasses == {"", "secret"}

\* Variant: the handler goes on after answering 400.
PortalSaveNoReturn(ssid, pass) ==
    /\ pc = "loop" /\ loopAt = "handleClient"
    /\ serverStarted /\ portalActive
    /\ restartCount < MaxRestarts
    /\ prefs' = [ssid |-> ssid, pass |-> pass]
    /\ saveStatus' = 200
    /\ EspRestart

\* variant: only the SSID is written, the stored password is kept
PortalSaveSsidOnly(ssid, pass) ==
    /\ pc = "loop" /\ loopAt = "handleClient"
    /\ serverStarted /\ portalActive
    /\ restartCount < MaxRestarts
    /\ IF ssid = ""
       THEN /\ saveStatus' = 400
            /\ UNCHANGED <<now, pc, queueVars, ingestVars, credVars, wifiVars,
                           bleVars, apVars, loopVars, histVars, pendingJson,
                           bleScanStallCount, stallRestartMs, watchdogCalls>>
       ELSE /\ prefs' = [ssid |-> ssid, pass |-> prefs.pass]
            /\ saveStatus' = 200
            /\ EspRestart

PortalSave(ssid, pass) ==
    /\ pc = "loop" /\ loopAt = "handleClient"
    /\ serverStarted /\ portalActive
    /\ restartCount < MaxRestarts
    /\ IF ssid = ""
       THEN /\ saveStatus' = 400
            /\ UNCHANGED <<now, pc, queueVars, ingestVars, credVars, wifiVars,
                           bleVars, apVars, loopVars, histVars, pendingJson,
                           bleScanStallCount, stallRestartMs, watchdogCalls>>
       ELSE /\ prefs' = [ssid |-> ssid, pass |-> pass]
            /\ saveStatus' = 200
            /\ EspRestart

----------------------------------------------------------------------------
(***************************************************************************)
(* loop(), statement by statement.  loopAt names the statement the main    *)
(* task is at; the Wi-Fi event handlers run on another task and interleave *)
(* with the statements.  ensureBleScan, ensureMdns, startWifiScanPassive   *)
(* and the heap and loop-time statistics change only scan, mDNS and        *)
(* statistics variables, none of which the statements below read.  In the  *)
(* specifications that do not step through loop(), loopAt keeps its        *)
(* initial value and the handlers loop() calls are taken one at a time.    *)
(***************************************************************************)
emitHeartbeat(p, t, connected, depth, seen) ==
    LET ip == IF connected THEN LocalIp ELSE ""
        data == <<"{">> \o jsonKV("uptime_ms", ToString(t), FALSE)
                \o Comma(jsonKV("mac", MacAddress, TRUE))
                \o Comma(jsonKV("hostname", hostname, TRUE))
                \o Comma(jsonKV("wifi_rssi", StaRssi, FALSE))
                \o Comma(jsonMaybeString("ip", ip))
                \o Comma(jsonKV("heap_free", FreeHeap, FALSE))
                \o Comma(jsonKV("queue_depth", ToString(depth), FALSE))
                \o Comma(jsonKV("ble_seen_total", ToString(seen), FALSE))
                \o <<"}">>
    IN EmitEvent(p, t, "node.heartbeat", data, <<>>)

\* server.handleClient() with no request pending, then ensureWiFi()
LoopEnsureWiFi ==
    /\ pc = "loop" /\ loopAt = "handleClient"
    /\ ensureWiFi
    /\ loopAt' = "timeout"
    /\ UNCHANGED <<now, pc, lastWifiConnected, lastIpStr, lastHeartbeatMs>>

\* the connect timeout
LoopConnectTimeout(jitter) ==
    /\ pc = "loop" /\ loopAt = "timeout"
    /\ IF /\ wifiState = "connecting" /\ ~wlConnected
          /\ wifiConnectStartMs > 0
          /\ Sub32(now, wifiConnectStartMs) > WIFI_CONNECT_TIMEOUT_MS
       THEN /\ staBegun' = FALSE
            /\ wifiFailCount' = BumpFail(wifiFailCount)
            /\ nextWifiAttemptMs' =
                   now + computeWifiBackoffMs(wifiFailCount', jitter)
            /\ wifiState' = "backoff"
            /\ wifiConnectStartMs' = 0
            /\ SetPipe(emitWifiStatus(Pipe, now,
                           WifiView(FALSE, FALSE, runtimeSsid, "backoff",
                                    lastAuthMode, lastDisconnectReason)))
       ELSE /\ jitter = 0
            /\ UNCHANGED <<queueVars, staBegun, wifiFailCount,
                           nextWifiAttemptMs, wifiState, wifiConnectStartMs>>
    /\ loopAt' = "change"
    /\ UNCHANGED <<now, pc, ingestVars, credVars, wlConnected, portalActive,
                   serverStarted, lastDisconnectReason, lastAuthMode,
                   lastAnnounceMs, bleVars, apVars, mainVars, histVars,
                   lastWifiConnected, lastIpStr, lastHeartbeatMs>>

\* the connection or the address differs from the one the last pass saw
LoopWifiChange ==
    /\ pc = "loop" /\ loopAt = "change"
    /\ LET wifiConnected == wlConnected
           ipStr == IF wifiConnected THEN LocalIp ELSE ""
           ipChanged == ipStr # lastIpStr
       IN IF wifiConnected # lastWifiConnected \/ (wifiConnected /\ ipChanged)
          THEN /\ lastWifiConnected' = wifiConnected
               /\ lastIpStr' = ipStr
               /\ IF wifiConnected
                  THEN LET p1 == emitWifiStatus(Pipe, now,
                                     WifiView(TRUE, staBegun, runtimeSsid,
                                              wifiState, lastAuthMode,
                                              lastDisconnectReason))
                           a == emitAnnounce(p1, now, TRUE, runtimeSsid,
                                             lastAnnounceMs)
                       IN /\ SetPipe(a.p)
                          /\ lastAnnounceMs' = a.lastAnnounceMs
                          /\ announceBuilt' = announceBuilt + 1
                  ELSE UNCHANGED <<queueVars, lastAnnounceMs, announceBuilt>>
          ELSE UNCHANGED <<queueVars, lastAnnounceMs, announceBuilt,
                           lastWifiConnected, lastIpStr>>
    /\ loopAt' = "heartbeat"
    /\ UNCHANGED <<now, pc, ingestVars, credVars, wlConnected, staBegun,
                   portalActive, serverStarted, wifiState, wifiFailCount,
                   nextWifiAttemptMs, wifiConnectStartMs, lastDisconnectReason,
                   lastAuthMode, bleVars, apVars, mainVars, lastHeartbeatMs,
                   connectingSinceMs, gotIpCount, restartCount>>

LoopHeartbeat ==
    /\ pc = "loop" /\ loopAt = "heartbeat"
    /\ IF Sub32(now, lastHeartbeatMs) >= HEARTBEAT_INTERVAL_MS
       THEN /\ lastHeartbeatMs' = now
            /\ SetPipe(emitHeartbeat(Pipe, now, wlConnected, QueueSize(queue),
                                     bleSeenCount))
       ELSE UNCHANGED <<queueVars, lastHeartbeatMs>>
    /\ loopAt' = "announce"
    /\ UNCHANGED <<now, pc, ingestVars, credVars, wifiVars, bleVars, apVars,
                   mainVars,
                   histVars, lastWifiConnected, lastIpStr>>

\* wifiConnected is the value the change test read: lastWifiConnected
LoopAnnounce ==
    /\ pc = "loop" /\ loopAt = "announce"
    /\ IF lastWifiConnected
          /\ Sub32(now, lastAnnounceMs) >= ANNOUNCE_INTERVAL_MS
       THEN LET a == emitAnnounce(Pipe, now, wlConnected, runtimeSsid,
                                  lastAnnounceMs)
            IN /\ SetPipe(a.p)
               /\ lastAnnounceMs' = a.lastAnnounceMs
               /\ announceBuilt' =
                      IF wlConnected THEN announceBuilt + 1 ELSE announceBuilt
       ELSE UNCHANGED <<queueVars, lastAnnounceMs, announceBuilt>>
    /\ loopAt' = "send"
    /\ UNCHANGED <<now, pc, ingestVars, credVars, wlConnected, staBegun,
                   portalActive, serverStarted, wifiState, wifiFailCount,
                   nextWifiAttemptMs, wifiConnectStartMs, lastDisconnectReason,
                   lastAuthMode, bleVars, apVars, mainVars,
                   lastWifiConnected, lastIpStr,
                   lastHeartbeatMs, connectingSinceMs, gotIpCount,
                   restartCount>>

\* trySendQueued() returning at once: nothing queued, or the backoff not over
LoopSendIdle ==
    /\ pc = "loop" /\ loopAt = "send"
    /\ QueueEmpty(queue) \/ now < nextSendAtMs
    /\ loopAt' = "delay"
    /\ UNCHANGED <<now, pc, queueVars, ingestVars, credVars, wifiVars, bleVars,
                   apVars, mainVars, histVars, lastWifiConnected, lastIpStr,
                   lastHeartbeatMs>>

\* delay(1): the pass ends, a tick of uptime later
LoopDelay ==
    /\ pc = "loop" /\ loopAt = "delay"
    /\ now < MaxNow
    /\ now' = now + 1
    /\ loopAt' = "handleClient"
    /\ UNCHANGED <<pc, queueVars, ingestVars, credVars, wifiVars, bleVars,
                   apVars, mainVars, histVars, lastWifiConnected, lastIpStr,
                   lastHeartbeatMs>>

----------------------------------------------------------------------------
(***************************************************************************)
(* Direct calls of the admission path and of EventQueue::pop with          *)
(* arbitrary texts, for the properties of enqueueEventChecked as a         *)
(* function of its argument.                                               *)
(***************************************************************************)
EventHeadOfType(type) ==
    <<"{">> \o jsonKV("v", ToString(EVENT_SCHEMA_VERSION), FALSE)
        \o Comma(jsonKV("ts_ms", "0", FALSE))
        \o Comma(jsonKV("node_id", nodeId, TRUE))
        \o Comma(jsonKV("type", type, TRUE))
        \o Comma(jsonKV("src", nodeId, TRUE))
        \o Comma(jsonKV("seq", "1", FALSE))

\* a complete event
PayloadValid == EventHeadOfType("node.heartbeat") \o <<",", Q("data"), ":", "{", "}", "}">>

\* the same event without its data member
PayloadNoData == EventHeadOfType("node.heartbeat") \o <<"}">>

\* no data member, but the text "data" is the value of type
PayloadNoDataTyped == EventHeadOfType("data") \o <<"}">>

\* no type member at top level, but one inside data
PayloadNestedType ==
    <<"{">> \o jsonKV("v", ToString(EVENT_SCHEMA_VERSION), FALSE)
        \o Comma(jsonKV("ts_ms", "0", FALSE))
        \o Comma(jsonKV("node_id", nodeId, TRUE))
        \o Comma(jsonKV("src", nodeId, TRUE))
        \o <<",", Q("data"), ":", "{">> \o jsonKV("type", "x", TRUE) \o <<"}", "}">>

RawPayloads == {PayloadValid, PayloadNoData, PayloadNoDataTyped, PayloadNestedType}

AdmitPayload(json) ==
    /\ Len(admitted) + eventDropCount + eventInvalidCount < MaxCalls
    /\ SetPipe(enqueueEventChecked(Pipe, json).p)
    /\ UNCHANGED <<now, pc, ingestVars, credVars, wifiVars, bleVars>>
    /\ UNCHANGED <<mainVars, apVars, loopVars, histVars>>

PopHead ==
    /\ ~QueueEmpty(queue)
    /\ queue' = QueuePop(queue)
    /\ UNCHANGED <<now, pc, eventSeq, eventDropCount, eventInvalidCount,
                   admitted, ingestVars, credVars, wifiVars, bleVars>>
    /\ UNCHANGED <<mainVars, apVars, loopVars, histVars>>

----------------------------------------------------------------------------
(***************************************************************************)
(* GET /ble/latest                                                         *)
(***************************************************************************)
\* values of the query argument limit; NoArg when the request has none
NoArg == "(none)"
LimitArgs == {NoArg, "x", "-1", "0", "1", "2", "3", "4", "50"}

\* String::toInt(): 0 when the text is not a number
toInt(text) ==
    IF \E n \in -1..50 : ToString(n) = text
    THEN CHOOSE n \in -1..50 : ToString(n) = text
    ELSE 0

\* the loop of handleBleLatest from i on: the observations it lists
RECURSIVE BleLatestFrom(_, _, _)
BleLatestFrom(i, emitted, limit) ==
    IF ~(i < bleRingCount /\ emitted < limit) THEN <<>>
    ELSE LET obs == bleRing[BleIdx(bleRingHead, i)] IN
         IF Len(obs.mac) = 0 THEN BleLatestFrom(i + 1, emitted, limit)
         ELSE <<obs>> \o BleLatestFrom(i + 1, emitted + 1, limit)

\* handleBleLatest: the items of the response
handleBleLatest(arg) ==
    LET l0 == IF arg # NoArg THEN toInt(arg) ELSE 50
        l1 == IF l0 <= 0 THEN 1 ELSE l0
        limit == IF l1 > BLE_OBS_CAPACITY THEN BLE_OBS_CAPACITY ELSE l1
    IN BleLatestFrom(0, 0, limit)

(***************************************************************************)
(* POST /probe                                                             *)
(***************************************************************************)
ProbeKeys == {"dns", "http_ingest", "http_self", "emit"}

\* Bodies of the request: no body, one member, or two members with
\* different keys, in either order.
ProbeBodies ==
    LET member(k, v) == <<Q(k), ":", jsonBool(v)>> IN
    {<<>>}
    \cup {<<"{">> \o member(k, v) \o <<"}">> : k \in ProbeKeys, v \in BOOLEAN}
    \cup {<<"{">> \o member(k[1], v[1]) \o <<",">> \o member(k[2], v[2]) \o <<"}">> :
             k \in {p \in ProbeKeys \X ProbeKeys : p[1] # p[2]},
             v \in BOOLEAN \X BOOLEAN}

\* bodyFlag(body, key, defaultValue)
bodyFlag(body, key, defaultValue) ==
    LET idxs == {i \in 1..Len(body) : body[i] = Q(key)} IN
    IF idxs = {} THEN defaultValue
    ELSE LET colons == {i \in SetMin(idxs)..Len(body) : body[i] = ":"} IN
         IF colons = {} THEN defaultValue
         ELSE LET tail == SubSeq(body, SetMin(colons) + 1, Len(body)) IN
              IF Contains(tail, "true") \/ Contains(tail, "1") THEN TRUE
              ELSE IF Contains(tail, "false") \/ Contains(tail, "0") THEN FALSE
              ELSE defaultValue

\* handleProbe with the request body given; up: the network answers (the
\* name resolves and the GETs return 200) or does not (they return -1)
HandleProbe(body, up) ==
    /\ pc = "loop"
    /\ eventSeq + 2 <= MaxSeq
    /\ LET doDns == bodyFlag(body, "dns", TRUE)
           doHttpIngest == bodyFlag(body, "http_ingest", TRUE)
           doHttpSelf == bodyFlag(body, "http_self", FALSE)
           emit == bodyFlag(body, "emit", TRUE)
           code == IF up THEN "200" ELSE "-1"
           host == "pi-logger.local"        \* parseHostFromUrl(ingestUrl)
           base == "http://pi-logger.local:8088"  \* baseUrlFromIngest(ingestUrl)
           self == IF wlConnected THEN LocalIp ELSE ZeroIp
           dnsData == <<"{", Q("host"), ":", Q(host), ",", Q("ok"), ":",
                        jsonBool(up), ",", Q("ms"), ":", "0", ",", Q("ip"), ":",
                        Q(IF up THEN LocalIp ELSE ""), "}">>
           get(name, url) == <<Q(name), ":", "{", Q("url"), ":", Q(url), ",",
                               Q("code"), ":", code, ",", Q("ok"), ":",
                               jsonBool(up), ",", Q("ms"), ":", "0", "}">>
           httpData == <<"{">>
                       \o (IF doHttpIngest THEN get("ingest", base \o "/health")
                            ELSE <<>>)
                       \o (IF doHttpIngest /\ doHttpSelf THEN <<",">> ELSE <<>>)
                       \o (IF doHttpSelf
                            THEN get("self", "http://" \o self \o "/health")
                            ELSE <<>>)
                       \o <<"}">>
           p1 == IF emit /\ doDns
                 THEN EmitEvent(Pipe, now, "probe.net", dnsData, <<>>) ELSE Pipe
           p2 == IF emit /\ (doHttpIngest \/ doHttpSelf)
                 THEN EmitEvent(p1, now, "probe.http", httpData, <<>>) ELSE p1
       IN SetPipe(p2)
    /\ UNCHANGED <<now, pc, ingestVars, credVars, wifiVars, bleVars, mainVars,
                   apVars, loopVars, histVars>>

(***************************************************************************)
(* The scan watchdog.                                                      *)
(***************************************************************************)
BLE_SCAN_RESTART_MS == 60 * OneSecond

\* ensureBleScan(), called on every pass of loop()
EnsureBleScan ==
    /\ pc = "loop"
    /\ watchdogCalls < MaxCalls
    /\ watchdogCalls' = watchdogCalls + 1
    /\ IF ~bleScanning
       THEN /\ bleScanning' = TRUE
            /\ lastBleRestartMs' = now
            /\ bleScanRestartCount' = bleScanRestartCount + 1
            /\ UNCHANGED <<bleScanStallCount, stallRestartMs>>
       ELSE IF lastBleResultMs > 0
               /\ Sub32(now, lastBleResultMs) > BLE_SCAN_RESTART_MS
       THEN /\ lastBleRestartMs' = now
            /\ bleScanStallCount' = bleScanStallCount + 1
            /\ stallRestartMs' = now
            /\ UNCHANGED <<bleScanning, bleScanRestartCount>>
       ELSE UNCHANGED <<bleScanning, lastBleRestartMs, bleScanRestartCount,
                        bleScanStallCount, stallRestartMs>>
    /\ UNCHANGED <<now, pc, queueVars, ingestVars, credVars, wifiVars, bleRing,
                   bleRingCount, bleRingHead, bleRingOverwriteCount,
                   bleDedupeCount, bleSeenCount, lastBleResultMs,
                   bleSecondStart, bleCountThisSecond, bleEmitLog, pendingJson,
                   saveStatus, apVars, loopVars, histVars>>

\* The controller ends the scan: isScanning() turns false.
BleScanEnds ==
    /\ pc = "loop"
    /\ bleScanning
    /\ bleScanRestartCount < MaxCalls
    /\ bleScanning' = FALSE
    /\ UNCHANGED <<now, pc, queueVars, ingestVars, credVars, wifiVars, bleRing,
                   bleRingCount, bleRingHead, bleRingOverwriteCount,
                   bleDedupeCount, bleSeenCount, lastBleResultMs,
                   lastBleRestartMs, bleScanRestartCount,
                   bleSecondStart, bleCountThisSecond, bleEmitLog, mainVars,
                   apVars, loopVars, histVars>>

(***************************************************************************)
(* Direct calls of shouldEmitAp at the current time.                       *)
(***************************************************************************)
ShouldEmitAp(bssid) ==
    /\ LET r == shouldEmitAp(ApState, bssid, now) IN
       /\ wifiApCache' = r.a.cache
       /\ wifiApDedupeCount' = r.a.dedupe
       /\ apPermit' = r.ok
    /\ UNCHANGED <<now, pc, queueVars, ingestVars, credVars, wifiVars, bleVars,
                   loopVars, histVars, wifiApSeenCount, wifiApDropCount,
                   mainVars>>

\* Access points a scan may report.
ApRecords ==
    [bssid : Bssids, ssid : {"lab"}, primary : {StaChannel}, rssi : {StaRssi},
     auth : {"wpa2"}]

\* emitWifiApSeen(ap), called for a record of a completed scan
EmitWifiApSeen(ap) ==
    /\ pc = "loop"
    /\ eventSeq < MaxSeq
    /\ LET r == shouldEmitAp(ApState, ap.bssid, now)
           data == <<"{">> \o jsonKV("ssid", ap.ssid, TRUE)
                   \o Comma(jsonKV("bssid", ap.bssid, TRUE))
                   \o Comma(jsonKV("channel", ap.primary, FALSE))
                   \o Comma(jsonKV("rssi", ap.rssi, FALSE))
                   \o Comma(jsonKV("auth", ap.auth, TRUE))
                   \o <<"}">>
           b == buildEvent(Pipe, now, "wifi.ap_seen", data, <<>>)
           e == enqueueEventChecked(b.p, b.json)
       IN /\ wifiApCache' = r.a.cache
          /\ wifiApDedupeCount' = r.a.dedupe
          /\ IF r.ok
             THEN /\ SetPipe(e.p)
                  /\ wifiApSeenCount' = wifiApSeenCount + (IF e.ok THEN 1 ELSE 0)
                  /\ wifiApDropCount' = wifiApDropCount + (IF e.ok THEN 0 ELSE 1)
             ELSE UNCHANGED <<queueVars, wifiApSeenCount, wifiApDropCount>>
    /\ UNCHANGED <<now, pc, apPermit, ingestVars, credVars, wifiVars, bleVars,
                   loopVars, histVars, mainVars>>

----------------------------------------------------------------------------
(***************************************************************************)
(* Specifications.  Spec is the node; the others are the node restricted   *)
(* to the handlers of one subsystem, with the inputs named.                *)
(***************************************************************************)
Next ==
    \/ Tick
    \/ Setup
    \/ \E dev \in Devices : BleOnResult(dev)
    \/ \E reason \in DisconnectReasons, jitter \in Jitter :
          WifiStaDisconnected(reason, jitter)
    \/ WifiStaGotIp
    \/ WifiStaConnected
    \/ EnsureWiFi
    \/ \E jitter \in Jitter : TrySendOffline(jitter)
    \/ TrySendBegin
    \/ \E code \in PostCodes, jitter \in Jitter : TrySendComplete(code, jitter)
    \/ \E ssid \in FormSsids, pass \in FormPasses : PortalSave(ssid, pass)

Spec == Init /\ [][Next]_vars

\* Event queue and ingest client; producers are setup(), one advertiser and
\* the station obtaining its address; random() returns 0.
QueueDevices == {dev \in Devices : dev.advFlags = 6 /\ dev.addrType = "public"}

NextQueue ==
    \/ Tick
    \/ Setup
    \/ \E dev \in QueueDevices : BleOnResult(dev)
    \/ WifiStaGotIp
    \/ TrySendOffline(0)
    \/ TrySendBegin
    \/ \E code \in PostCodes : TrySendComplete(code, 0)

SpecQueue == Init /\ [][NextQueue]_vars

\* Ingest client over minutes of uptime; producers are setup() and the
\* station obtaining its address; random() returns 0.
NextIngest ==
    \/ Tick
    \/ TickMinute
    \/ Setup
    \/ WifiStaGotIp
    \/ TrySendOffline(0)
    \/ TrySendBegin
    \/ \E code \in PostCodes : TrySendComplete(code, 0)

SpecIngest == Init /\ [][NextIngest]_vars

\* shouldEmitAp called with arbitrary BSSIDs as time passes.
NextAp ==
    \/ Tick
    \/ \E bssid \in Bssids : ShouldEmitAp(bssid)

SpecAp == Init /\ [][NextAp]_vars

\* Records of Wi-Fi scans passed to emitWifiApSeen as time passes.
NextScan ==
    \/ Tick
    \/ Setup
    \/ \E ap \in ApRecords : EmitWifiApSeen(ap)

SpecScan == Init /\ [][NextScan]_vars

\* Startup with the scan callback called from the BLE host task, then the
\* loop with no link.
MainStep ==
    \/ SetupToStartBLE
    \/ BootBuildEvent
    \/ PushCheck
    \/ PushWrite
    \/ PushTail
    \/ PushCount

NextRace ==
    \/ TickRetry
    \/ MainStep
    \/ \E dev \in {d \in Devices : d.mfgLen > 0} : BleOnResult(dev)
    \/ TrySendOffline(0)

SpecRace == Init /\ [][NextRace]_vars

\* The main task keeps running and time passes.
SpecRaceFair ==
    /\ SpecRace
    /\ WF_vars(MainStep)
    /\ WF_vars(TrySendOffline(0))
    /\ WF_vars(TickRetry)

\* The scan watchdog over minutes of uptime, advertisements arriving or not.
NextWatch ==
    \/ Tick
    \/ TickMinute
    \/ Setup
    \/ \E dev \in QueueDevices : BleOnResult(dev)
    \/ EnsureBleScan
    \/ BleScanEnds

SpecWatch == Init /\ [][NextWatch]_vars

\* Probe requests as time passes.
NextProbe ==
    \/ Tick
    \/ Setup
    \/ \E body \in ProbeBodies, up \in BOOLEAN : HandleProbe(body, up)

SpecProbe == Init /\ [][NextProbe]_vars

\* BLE scanner callback.
NextBle ==
    \/ Tick
    \/ Setup
    \/ \E dev \in Devices : BleOnResult(dev)

SpecBle == Init /\ [][NextBle]_vars

\* BLE scanner callback over minutes of uptime.
NextBleLong == NextBle \/ TickMinute

SpecBleLong == Init /\ [][NextBleLong]_vars

\* Retries: the ingest client and the station failing time after time.
NextFail ==
    \/ TickRetry
    \/ Setup
    \/ WifiStaDisconnected(201, 0)
    \/ WifiStaGotIp
    \/ TrySendOffline(0)
    \/ TrySendBegin
    \/ \E code \in {200, -1} : TrySendComplete(code, 0)

SpecFail == Init /\ [][NextFail]_vars

\* Delivery after trouble: the station drops and POSTs fail during the first
\* 31 seconds of uptime, long enough for the fail count to reach its cap
\* (1 + 2 + 4 + 8 + 16 s of back-off), and POSTs are answered 200 after that.
PostReturns ==
    \/ TrySendComplete(200, 0)
    \/ (now <= 31 * OneSecond /\ TrySendComplete(-1, 0))

NextDeliver ==
    \/ TickRetry
    \/ Setup
    \/ WifiStaDisconnected(201, 0)
    \/ WifiStaGotIp
    \/ (now <= 31 * OneSecond /\ TrySendOffline(0))
    \/ TrySendBegin
    \/ PostReturns

SpecDeliver == Init /\ [][NextDeliver]_vars

\* loop() keeps being called, millis() advances and http.POST returns.
SpecDeliverFair ==
    /\ SpecDeliver
    /\ WF_vars(TickRetry)
    /\ WF_vars(TrySendBegin)
    /\ WF_vars(PostReturns)

\* The main loop and the Wi-Fi event handlers.
NextLoop ==
    \/ Setup
    \/ LoopEnsureWiFi
    \/ \E jitter \in Jitter : LoopConnectTimeout(jitter)
    \/ LoopWifiChange
    \/ LoopHeartbeat
    \/ LoopAnnounce
    \/ LoopSendIdle
    \/ loopAt = "send" /\ TrySendOffline(0)
    \/ loopAt = "send" /\ TrySendBegin
    \/ \E code \in PostCodes : TrySendComplete(code, 0)
    \/ LoopDelay
    \/ \E reason \in DisconnectReasons : WifiStaDisconnected(reason, 0)
    \/ WifiStaGotIp
    \/ WifiStaConnected
    \/ \E ssid \in FormSsids, pass \in FormPasses : PortalSave(ssid, pass)

SpecLoop == Init /\ [][NextLoop]_vars

\* Wi-Fi station manager.
NextWifi ==
    \/ Tick
    \/ Setup
    \/ \E reason \in DisconnectReasons, jitter \in Jitter :
          WifiStaDisconnected(reason, jitter)
    \/ WifiStaGotIp
    \/ WifiStaConnected
    \/ EnsureWiFi

SpecWifi == Init /\ [][NextWifi]_vars

\* Admission path called with arbitrary texts.
NextAdmit ==
    \/ \E json \in RawPayloads : AdmitPayload(json)
    \/ PopHead

SpecAdmit == Init /\ [][NextAdmit]_vars

----------------------------------------------------------------------------
(***************************************************************************)
(* Reading a JSON text: nesting depth, top-level members, numbers.         *)
(***************************************************************************)
Opens(json, i) == Cardinality({k \in 1..(i - 1) : json[k] \in {"{", "["}})
Closes(json, i) == Cardinality({k \in 1..(i - 1) : json[k] \in {"}", "]"}})

\* nesting depth of token i
Depth(json, i) == Opens(json, i) - Closes(json, i)

\* positions of the member named key in the outermost object
TopLevelAt(json, key) ==
    {i \in 1..(Len(json) - 1) :
        json[i] = Q(key) /\ json[i + 1] = ":" /\ Depth(json, i) = 1}

HasTopLevelKey(json, key) == TopLevelAt(json, key) # {}

ParseNat(token) == CHOOSE n \in 0..(MaxSeq + 2) : ToString(n) = token

\* the value of the top-level member seq
SeqOf(json) == ParseNat(json[SetMin(TopLevelAt(json, "seq")) + 2])

IsPrefix(a, b) == Len(a) <= Len(b) /\ SubSeq(b, 1, Len(a)) = a

NoDuplicates(a) == \A i, j \in 1..Len(a) : i # j => a[i] # a[j]

\* how many ble.seen events were built at a time t with lo <= t < hi
BleEmitsIn(lo, hi) ==
    Cardinality({k \in 1..Len(bleEmitLog) : lo <= bleEmitLog[k] /\ bleEmitLog[k] < hi})

----------------------------------------------------------------------------
(***************************************************************************)
(* C1.  Within one boot the seq values of the events accepted into the     *)
(* queue are strictly increasing in admission order, the first event built *)
(* is accepted and carries seq 1, and no seq is ahead of eventSeq.         *)
(***************************************************************************)
AdmittedSeqs == [i \in 1..Len(admitted) |-> SeqOf(admitted[i])]

C1_SeqStrictlyIncreasing ==
    LET seqs == AdmittedSeqs IN
    /\ \A i \in 1..(Len(seqs) - 1) : seqs[i] < seqs[i + 1]
    /\ (eventSeq = 0) = (admitted = <<>>)
    /\ seqs # <<>> => seqs[1] = 1 /\ seqs[Len(seqs)] <= eventSeq

\* Events 1..3 fill the queue, a later one is dropped, and after a pop a
\* further event is accepted: the accepted seq values have a gap.
C1_Witness ==
    LET seqs == AdmittedSeqs IN
    \E i \in 1..(Len(seqs) - 1) : seqs[i + 1] > seqs[i] + 1

(***************************************************************************)
(* C2.  When an ingest POST that carried the first postBatch entries       *)
(* returns: with a code in [200,300) exactly those entries leave the head  *)
(* of the queue and every other entry stays, in order; with any other code *)
(* or a transport error every entry stays.  Entries pushed by callbacks    *)
(* while the POST was outstanding are among those that stay.               *)
(***************************************************************************)
C2_Effect(code) ==
    LET old == QueueContents(queue)
        new == QueueContents(queue')
        b == postBatch
    IN IF code >= 200 /\ code < 300
       THEN /\ b = Len(postEntries) /\ b <= Len(old)
            /\ SubSeq(old, 1, b) = postEntries
            /\ IsPrefix(SubSeq(old, b + 1, Len(old)), new)
            /\ Len(new) <= Len(old) - b + 1
       ELSE /\ IsPrefix(old, new)
            /\ Len(new) <= Len(old) + 1

C2_PostedPrefixPopped ==
    [][\A code \in PostCodes :
          (\E jitter \in Jitter : TrySendComplete(code, jitter)) => C2_Effect(code)]_vars

\* A POST was answered with 2xx after an advertisement callback had pushed
\* an event while it was outstanding, and entries remain queued.
C2_Witness ==
    /\ pc = "loop"
    /\ ingestOkCount >= 1
    /\ lastIngestOkMs > postStart
    /\ BleEmitsIn(postStart + 1, lastIngestOkMs) >= 1
    /\ ~QueueEmpty(queue)

(***************************************************************************)
(* C3.  The events delivered to ingest are a prefix of the events          *)
(* admitted: same order, same text, none twice; and every POST, a retry    *)
(* included, carries the texts that follow the delivered ones.             *)
(***************************************************************************)
RECURSIVE JoinEntries(_, _)
JoinEntries(entries, i) ==
    IF i > Len(entries) THEN <<>>
    ELSE (IF i > 1 THEN <<",">> ELSE <<>>) \o entries[i] \o JoinEntries(entries, i + 1)

BodyOf(entries) ==
    IF Len(entries) <= 1 THEN entries[1]
    ELSE <<"[">> \o JoinEntries(entries, 1) \o <<"]">>

C3_DeliveredPrefixOfAdmitted ==
    /\ IsPrefix(delivered, admitted)
    /\ NoDuplicates(delivered)
    /\ pc = "post" =>
          /\ postEntries # <<>>
          /\ IsPrefix(delivered \o postEntries, admitted)
          /\ postPayload = BodyOf(postEntries)

\* A batch was refused, posted again and then delivered.
C3_Witness ==
    /\ ingestErrCount >= 1
    /\ Len(delivered) >= 2
    /\ lastIngestOkMs > lastIngestErrMs

(***************************************************************************)
(* C4.  The queue size is always in 0..EVENT_QUEUE_CAPACITY, and the queue *)
(* holds exactly the admitted events not yet delivered, in order: a push   *)
(* on a full queue neither evicts nor overwrites.                          *)
(***************************************************************************)
C4_QueueWithinCapacity ==
    /\ queue.count_ \in 0..EVENT_QUEUE_CAPACITY
    /\ queue.tail_ = (queue.head_ + queue.count_) % EVENT_QUEUE_CAPACITY
    /\ QueueContents(queue) = SubSeq(admitted, Len(delivered) + 1, Len(admitted))

\* The queue is full and a push has been refused.
C4_Witness == queue.count_ = EVENT_QUEUE_CAPACITY /\ eventDropCount >= 1

(***************************************************************************)
(* C5.  Every call of enqueueEventChecked raises exactly one of queue      *)
(* depth, eventDropCount, eventInvalidCount by one and leaves the other    *)
(* two as they were.                                                       *)
(***************************************************************************)
C5_ExactlyOneCounter ==
    [][(\E json \in RawPayloads : AdmitPayload(json)) =>
          <<queue'.count_ - queue.count_,
            eventDropCount' - eventDropCount,
            eventInvalidCount' - eventInvalidCount>>
              \in {<<1, 0, 0>>, <<0, 1, 0>>, <<0, 0, 1>>}]_vars

\* All three outcomes have occurred.
C5_Witness ==
    /\ queue.count_ = EVENT_QUEUE_CAPACITY
    /\ eventDropCount >= 1
    /\ eventInvalidCount >= 1

(***************************************************************************)
(* C6.  A handler that builds k valid events while the queue is full       *)
(* raises eventDropCount by k and leaves the queue (size, entries, order)  *)
(* and eventInvalidCount unchanged.                                        *)
(***************************************************************************)
C6_FullQueueDrops ==
    [][(queue.count_ = EVENT_QUEUE_CAPACITY /\ pc' = pc /\ eventSeq' > eventSeq) =>
          /\ eventDropCount' = eventDropCount + (eventSeq' - eventSeq)
          /\ queue' = queue
          /\ eventInvalidCount' = eventInvalidCount
          /\ admitted' = admitted]_vars

\* Two events were refused by a full queue.
C6_Witness == queue.count_ = EVENT_QUEUE_CAPACITY /\ eventDropCount >= 2

(***************************************************************************)
(* C7.  As stated: a text that lacks one of the required keys at top level *)
(* raises eventInvalidCount by one, is not pushed, and leaves              *)
(* eventDropCount alone.                                                   *)
(***************************************************************************)
RejectedAsInvalid ==
    /\ eventInvalidCount' = eventInvalidCount + 1
    /\ queue' = queue
    /\ admitted' = admitted
    /\ eventDropCount' = eventDropCount

LacksTopLevelKey(json) == \E key \in RequiredKeys : ~HasTopLevelKey(json, key)

C7_MissingTopLevelKeyRejected ==
    [][\A json \in RawPayloads :
          (AdmitPayload(json) /\ LacksTopLevelKey(json)) => RejectedAsInvalid]_vars

(***************************************************************************)
(* C7, amended.  A text in which the quoted name of one of the required    *)
(* keys occurs nowhere raises eventInvalidCount by one, is not pushed, and *)
(* leaves eventDropCount alone, whether or not the queue is full.          *)
(***************************************************************************)
LacksKeyText(json) == \E key \in RequiredKeys : ~Contains(json, Q(key))

C7_MissingKeyTextRejected ==
    [][\A json \in RawPayloads :
          (AdmitPayload(json) /\ LacksKeyText(json)) => RejectedAsInvalid]_vars

\* Texts were rejected as invalid, the queue is full and nothing was dropped.
C7_Witness ==
    /\ eventInvalidCount >= 2
    /\ queue.count_ = EVENT_QUEUE_CAPACITY
    /\ eventDropCount = 0

(***************************************************************************)
(* C8.  As stated: every interval of 1000 ms, whatever its start, holds at *)
(* most BLE_MAX_PER_SECOND ble.seen emissions.                             *)
(***************************************************************************)
C8_AnyIntervalWithinCap ==
    \A start \in 0..MaxNow :
        BleEmitsIn(start, start + OneSecond) <= BLE_MAX_PER_SECOND

(***************************************************************************)
(* C8, amended.  The emissions since the scanner's window was last opened  *)
(* (bleSecondStart) number bleCountThisSecond, at most BLE_MAX_PER_SECOND; *)
(* an interval of 1000 ms with any other start overlaps two windows and    *)
(* holds at most twice that many; every emission is counted in             *)
(* bleSeenCount.                                                           *)
(***************************************************************************)
C8_ScannerWindowWithinCap ==
    /\ BleEmitsIn(bleSecondStart, now + 1) = bleCountThisSecond
    /\ bleCountThisSecond <= BLE_MAX_PER_SECOND
    /\ \A start \in 0..MaxNow :
          BleEmitsIn(start, start + OneSecond) <= 2 * BLE_MAX_PER_SECOND
    /\ bleSeenCount = Len(bleEmitLog)

\* The window is used up and a later callback inside it was dropped.
C8_Witness ==
    /\ bleCountThisSecond = BLE_MAX_PER_SECOND
    /\ bleEmitLog # <<>>
    /\ lastBleResultMs > bleEmitLog[Len(bleEmitLog)]
    /\ Sub32(lastBleResultMs, bleSecondStart) < OneSecond

(***************************************************************************)
(* C9.  As stated: a callback whose advertisement is found in the ring     *)
(* within the dedup window (the dedup counter rises) builds no ble.seen    *)
(* event.                                                                  *)
(***************************************************************************)
C9_DedupSuppressesEmit ==
    [][bleDedupeCount' = bleDedupeCount + 1 =>
          eventSeq' = eventSeq /\ bleEmitLog' = bleEmitLog]_vars

(***************************************************************************)
(* C10.  As stated: a disconnect handled at time now with fail earlier     *)
(* consecutive failures sets nextWifiAttemptMs - now to                    *)
(* min(WIFI_RETRY_BASE_MS * 2^fail, WIFI_RETRY_MAX_MS) plus a jitter       *)
(* below 1000 ms.                                                          *)
(***************************************************************************)
C10_ClaimedDelays(fail) ==
    {Min(WIFI_RETRY_BASE_MS * (2 ^ fail), WIFI_RETRY_MAX_MS) + jitter : jitter \in Jitter}

C10_BackoffFromPrecedingFailures ==
    [][(\E reason \in DisconnectReasons, jitter \in Jitter :
           WifiStaDisconnected(reason, jitter)) =>
          (nextWifiAttemptMs' - now) \in C10_ClaimedDelays(wifiFailCount)]_vars

(***************************************************************************)
(* C11.  As stated: counting from failCount 0 with the station connected,  *)
(* the k-th consecutive non-2xx response (k = 1, 2, 3) schedules the next  *)
(* send 2^(k-1) seconds plus a jitter below one second after now; a 2xx    *)
(* response resets failCount to 0.                                         *)
(***************************************************************************)
C11_ClaimedDelays(fail) == {(2 ^ fail) * OneSecond + jitter : jitter \in Jitter}

C11_BackoffOneTwoFour ==
    [][\A code \in PostCodes :
          (\E jitter \in Jitter : TrySendComplete(code, jitter)) =>
              IF code >= 200 /\ code < 300
              THEN failCount' = 0
              ELSE failCount < 3 =>
                      (nextSendAtMs' - now) \in C11_ClaimedDelays(failCount)]_vars

(***************************************************************************)
(* C12.  As stated: the part of trySendQueued that follows http.POST       *)
(* lowers queue.size() by exactly the batch count after a 2xx response and *)
(* leaves it unchanged after any other response.                           *)
(***************************************************************************)
C12_SizeDropsByBatch ==
    [][\A code \in PostCodes :
          (\E jitter \in Jitter : TrySendComplete(code, jitter)) =>
              QueueSize(queue') =
                  IF code >= 200 /\ code < 300
                  THEN QueueSize(queue) - postBatch
                  ELSE QueueSize(queue)]_vars

(***************************************************************************)
(* C12, amended.  After a 2xx response the size is the old size less the   *)
(* batch count, plus one when the attempt built an ingest.ok event (which  *)
(* the queue, just popped, always admits); after any other response it is  *)
(* the old size, plus one when the attempt built an ingest.err event and   *)
(* the queue was not full.                                                 *)
(***************************************************************************)
C12_Built == eventSeq' - eventSeq

C12_SizeDropsByBatchLessReport ==
    [][\A code \in PostCodes :
          (\E jitter \in Jitter : TrySendComplete(code, jitter)) =>
              /\ C12_Built \in {0, 1}
              /\ postBatch >= 1
              /\ QueueSize(queue') =
                    IF code >= 200 /\ code < 300
                    THEN QueueSize(queue) - postBatch + C12_Built
                    ELSE IF QueueSize(queue) < EVENT_QUEUE_CAPACITY
                         THEN QueueSize(queue) + C12_Built
                         ELSE QueueSize(queue)]_vars

\* An ingest.ok event sits in the queue behind entries the POST did not carry.
C12_Witness ==
    /\ pc = "loop"
    /\ ingestOkCount >= 1
    /\ lastIngestOkEventMs = lastIngestOkMs
    /\ lastIngestOkEventMs > 0
    /\ QueueSize(queue) >= 2

(***************************************************************************)
(* C13.  bleRingCount never exceeds BLE_OBS_CAPACITY.  A callback that     *)
(* records an advertisement whose (MAC, adv-flags) key is not in the ring  *)
(* raises bleRingOverwriteCount by one and leaves bleRingCount unchanged   *)
(* when the ring is full, and otherwise raises bleRingCount by one and     *)
(* leaves bleRingOverwriteCount unchanged.                                 *)
(***************************************************************************)
C13_Recorded == bleSeenCount' = bleSeenCount + 1

C13_RingCountAndOverwrite ==
    [][/\ bleRingCount' <= BLE_OBS_CAPACITY
       /\ \A dev \in Devices :
             (/\ BleOnResult(dev)
              /\ C13_Recorded
              /\ BleHits(BleRingState, dev.addr, dev.advFlags) = {}) =>
                 IF bleRingCount = BLE_OBS_CAPACITY
                 THEN /\ bleRingOverwriteCount' = bleRingOverwriteCount + 1
                      /\ bleRingCount' = bleRingCount
                 ELSE /\ bleRingCount' = bleRingCount + 1
                      /\ bleRingOverwriteCount' = bleRingOverwriteCount]_vars

\* The ring is full and an entry has been overwritten.
C13_Witness ==
    /\ bleRingCount = BLE_OBS_CAPACITY
    /\ bleRingOverwriteCount >= 1

(***************************************************************************)
(* C14.  As stated: a call of shouldEmitAp with a BSSID that is not in the *)
(* cache, made when every slot is valid, returns true and rewrites exactly *)
(* one slot, whose last_emit_ms was the least of all slots.                *)
(***************************************************************************)
ApCacheFull == \A i \in ApSlots : wifiApCache[i].valid

ApKnown(bssid) == \E i \in ApSlots : wifiApCache[i].valid /\ wifiApCache[i].bssid = bssid

ApChanged == {i \in ApSlots : wifiApCache'[i] # wifiApCache[i]}

C14_OldestSlotReclaimed ==
    [][\A bssid \in Bssids :
          (ShouldEmitAp(bssid) /\ ApCacheFull /\ ~ApKnown(bssid)) =>
              /\ apPermit'
              /\ \E i \in ApSlots :
                    /\ ApChanged = {i}
                    /\ wifiApCache'[i] =
                           [valid |-> TRUE, bssid |-> bssid, last_emit_ms |-> now]
                    /\ \A j \in ApSlots :
                          wifiApCache[i].last_emit_ms <= wifiApCache[j].last_emit_ms]_vars

(***************************************************************************)
(* C15.  As stated: every event text the node builds is well-formed JSON   *)
(* (the members of every object are separated by commas), and reading it   *)
(* back gives the type, the seq and the data object that went in.          *)
(***************************************************************************)
\* positions of the member names: the tokens followed by a colon
MemberNames(json) == {i \in 1..(Len(json) - 1) : json[i + 1] = ":"}

WellFormedJson(json) ==
    /\ Len(json) >= 2 /\ json[1] = "{" /\ json[Len(json)] = "}"
    /\ \A i \in 2..Len(json) : Depth(json, i) >= 1
    /\ Depth(json, Len(json)) = 1
    /\ \A i \in MemberNames(json) : i > 1 /\ json[i - 1] \in {"{", ","}
    /\ \A i \in 1..(Len(json) - 1) :
          json[i] = "," => json[i + 1] \notin {",", ":", "}", "]"}

\* the tokens of the top-level member data, braces included
DataOf(json) ==
    LET at == SetMin(TopLevelAt(json, "data")) + 2
        end == SetMin({i \in at..Len(json) : i > at /\ Depth(json, i + 1) = 1})
    IN SubSeq(json, at, end)

\* The pipeline with nothing queued: what an emitter appends to it is the
\* text it built.
FreshPipe == [Pipe EXCEPT !.queue = EmptyQueue, !.admitted = <<>>]

\* The events the handlers build in the current state, each with the type
\* its emitter passes to buildEvent.  emitAnnounce builds nothing while the
\* station has no address.
BuiltNow ==
    {[type |-> "node.boot", p |-> emitBootEvent(FreshPipe, now, wlConnected)],
     [type |-> "wifi.status",
      p |-> emitWifiStatus(FreshPipe, now,
                WifiView(wlConnected, staBegun, runtimeSsid, wifiState,
                         lastAuthMode, lastDisconnectReason))],
     [type |-> "ingest.ok",
      p |-> EmitEvent(FreshPipe, now, "ingest.ok",
                emitIngestOkData(ingestOkCount, 0), <<>>)],
     [type |-> "ingest.err",
      p |-> EmitEvent(FreshPipe, now, "ingest.err",
                emitIngestErrData(lastIngestErr, 0), <<>>)]}
    \cup {[type |-> "ble.seen", p |-> emitBleSeen(FreshPipe, now, dev)] :
            dev \in Devices}
    \cup (IF wlConnected
          THEN {[type |-> "node.announce",
                 p |-> emitAnnounce(FreshPipe, now, TRUE, runtimeSsid,
                                    lastAnnounceMs).p]}
          ELSE {})

C15_EventsWellFormed ==
    \A b \in BuiltNow :
        /\ Len(b.p.admitted) = 1
        /\ LET json == b.p.admitted[1] IN
           /\ WellFormedJson(json)
           /\ \A key \in {"type", "seq", "data"} :
                 Cardinality(TopLevelAt(json, key)) = 1
           /\ json[SetMin(TopLevelAt(json, "type")) + 2] = Q(b.type)
           /\ SeqOf(json) = eventSeq + 1
           /\ WellFormedJson(DataOf(json))

(***************************************************************************)
(* C18.  As stated: a failed ingest attempt builds an ingest.err event     *)
(* exactly when no error was recorded (none since boot or since the last   *)
(* success) or the error string differs from the recorded one, whatever    *)
(* the uptime; a repeat of the recorded error string builds none.          *)
(***************************************************************************)
IngestFailed == pc = "post" /\ ingestErrCount' = ingestErrCount + 1

C18_ErrEmittedWhenNew ==
    [][IngestFailed =>
          ((eventSeq' = eventSeq + 1) <=> (lastIngestErr' # lastIngestErr))]_vars

(***************************************************************************)
(* C19.  As stated: a successful ingest attempt builds an ingest.ok event  *)
(* if and only if the previous outcome was an error or more than 60 s have *)
(* passed since the last ingest.ok was built; the first success after a    *)
(* failure always builds one.                                              *)
(***************************************************************************)
IngestSucceeded == pc = "post" /\ ingestOkCount' = ingestOkCount + 1

C19_OkEmittedAfterError ==
    [][IngestSucceeded =>
          ((eventSeq' = eventSeq + 1)
             <=> (lastIngestErr # ""
                  \/ Sub32(now, lastIngestOkEventMs) > 60 * OneSecond))]_vars

(***************************************************************************)
(* C16.  As stated: a station that has been connecting for more than       *)
(* WIFI_CONNECT_TIMEOUT_MS, with no got-IP and no disconnect event in      *)
(* between, is forced to backoff by the timeout test of loop(): right      *)
(* after that test the station is never still connecting with the timeout  *)
(* exceeded.                                                               *)
(***************************************************************************)
C16_ConnectingTimesOut ==
    (loopAt = "change" /\ wifiState = "connecting" /\ ~wlConnected)
        => Sub32(now, connectingSinceMs) <= WIFI_CONNECT_TIMEOUT_MS

(***************************************************************************)
(* C17.  As stated: every got-IP event builds exactly one node.announce,   *)
(* and any other node.announce is built only when the announce interval    *)
(* has elapsed since the last one (the address of the station never        *)
(* changes in this model).                                                 *)
(***************************************************************************)
C17_OneAnnouncePerConnect ==
    [][/\ gotIpCount' # gotIpCount => announceBuilt' = announceBuilt + 1
       /\ (announceBuilt' # announceBuilt /\ gotIpCount' = gotIpCount)
             => Sub32(now, lastAnnounceMs) >= ANNOUNCE_INTERVAL_MS]_vars

(***************************************************************************)
(* C20.  The node restarts only in the step that handles a portal          *)
(* POST /save with a non-empty SSID, and the restart finds the SSID        *)
(* persisted; a step that takes an error path (a failed or offline ingest  *)
(* attempt, a disconnect or connect timeout, an event dropped or found     *)
(* invalid) never restarts the node.                                       *)
(***************************************************************************)
Restarted == pc # "boot" /\ pc' = "boot"

ErrorPathTaken ==
    \/ ingestErrCount' # ingestErrCount
    \/ failCount' > failCount
    \/ wifiFailCount' > wifiFailCount
    \/ eventDropCount' # eventDropCount
    \/ eventInvalidCount' # eventInvalidCount

C20_RestartOnlyAfterSave ==
    [][/\ Restarted <=> (restartCount' = restartCount + 1)
       /\ restartCount' # restartCount => Restarted
       /\ Restarted =>
             /\ portalActive /\ serverStarted /\ loopAt = "handleClient"
             /\ prefs'.ssid # "" /\ prefs' # prefs
       /\ ErrorPathTaken => ~Restarted]_vars

C20_Witness ==
    /\ restartCount = 1 /\ pc = "loop"
    /\ prefs.ssid # "" /\ runtimeSsid = prefs.ssid /\ ~portalActive

(***************************************************************************)
(* C28.  An advertisement callback that arrives while the counter of the   *)
(* current second has reached the cap, less than a second after the window *)
(* began, changes nothing but lastBleResultMs: the ring, its counters,     *)
(* bleSeenCount, eventSeq, the queue and the window are as they were.  The *)
(* counter falls only in a callback that arrives a second or more after    *)
(* the window began.                                                       *)
(***************************************************************************)
BleCallback == \E dev \in Devices : BleOnResult(dev)

BleAtCap ==
    /\ bleCountThisSecond >= BLE_MAX_PER_SECOND
    /\ Sub32(now, bleSecondStart) < OneSecond

C28_CappedCallbackOnlyStamps ==
    [][/\ (BleCallback /\ BleAtCap) =>
             /\ lastBleResultMs' = now
             /\ UNCHANGED <<queueVars, bleRing, bleRingCount, bleRingHead,
                            bleRingOverwriteCount, bleDedupeCount,
                            bleSeenCount, bleSecondStart, bleCountThisSecond,
                            bleEmitLog>>
       /\ bleCountThisSecond' < bleCountThisSecond =>
             /\ BleCallback
             /\ Sub32(now, bleSecondStart) >= OneSecond
             /\ bleSecondStart' = now]_vars

\* a callback arrived at the cap: later than the last ble.seen it built,
\* within the same window
C28_Witness ==
    /\ bleEmitLog # <<>>
    /\ lastBleResultMs > bleEmitLog[Len(bleEmitLog)]
    /\ Sub32(lastBleResultMs, bleSecondStart) < OneSecond
    /\ bleCountThisSecond >= BLE_MAX_PER_SECOND

(***************************************************************************)
(* C29.  As stated: when the ring is full and an advertisement with an     *)
(* unseen key is recorded, the slot that is overwritten holds the smallest *)
(* last-seen timestamp of the ring.                                        *)
(***************************************************************************)
C29_LeastRecentlySeenOverwritten ==
    [][bleRingOverwriteCount' = bleRingOverwriteCount + 1 =>
          \E i \in BleSlots :
              /\ bleRing'[i] # bleRing[i]
              /\ \A j \in BleSlots \ {i} : bleRing'[j] = bleRing[j]
              /\ \A j \in BleSlots :
                    bleRing[i].last_seen_ms <= bleRing[j].last_seen_ms]_vars

(***************************************************************************)
(* C23.  trySendQueued begins an HTTP POST only with the station           *)
(* connected, the queue non-empty and millis() at or past nextSendAtMs.    *)
(* A node that booted with blank credentials has its portal started by     *)
(* setup() and by no later step, and never begins or completes a POST.     *)
(***************************************************************************)
PostBegun == pc = "loop" /\ pc' = "post"

BlankBoot == pc # "boot" /\ runtimeSsid = ""

C23_PostOnlyWhenOnline ==
    [][/\ PostBegun =>
             /\ wlConnected /\ ~QueueEmpty(queue)
             /\ now >= nextSendAtMs
       /\ (portalActive' /\ ~portalActive) => (pc = "boot" /\ prefs.ssid = "")
       /\ (portalActive /\ pc' # "boot") => portalActive'
       /\ BlankBoot' =>
             (/\ portalActive' /\ ~staBegun' /\ ~wlConnected'
              /\ pc' # "post" /\ delivered' = <<>>
              /\ ingestOkCount' = 0 /\ ingestErrCount' = 0)]_vars

C23_Witness == pc = "post" /\ postBatch > 0 /\ wlConnected /\ loopAt = "send"

(***************************************************************************)
(* C25.  As stated: ensureWiFi begins an association (WiFi.begin, state    *)
(* connecting, a wifi.status event) only when the station state is         *)
(* disconnected or backoff, credentials are present and millis() is at or  *)
(* past nextWifiAttemptMs; never while the state is already connecting.    *)
(***************************************************************************)
AssociationBegun ==
    /\ loopAt = "handleClient" /\ loopAt' = "timeout"
    /\ wifiState' = "connecting" /\ eventSeq' = eventSeq + 1

C25_BeginOnlyWhenIdle ==
    [][AssociationBegun =>
          /\ wifiState \in {"disconnected", "backoff"}
          /\ runtimeSsid # ""
          /\ now >= nextWifiAttemptMs]_vars

(***************************************************************************)
(* C26.  wifiFailCount and failCount stay within 0..6.  A disconnect       *)
(* event raises wifiFailCount by one, and an offline or failed ingest      *)
(* attempt raises failCount by one, unless the count is 6 already, and     *)
(* then it stays 6.  A got-IP event sets wifiFailCount to 0 and a 2xx      *)
(* response sets failCount to 0.                                           *)
(***************************************************************************)
NextCount(count) == IF count = MaxFailCount THEN MaxFailCount ELSE count + 1

OfflineAttempt == \E jitter \in Jitter : TrySendOffline(jitter)

StaDisconnected ==
    \E reason \in DisconnectReasons, jitter \in Jitter :
        WifiStaDisconnected(reason, jitter)

Closed(base, max, n) == Min(base * 2^n, max)

BackoffTable ==
    \A n \in 0..MaxFailCount, jitter \in Jitter :
       /\ computeWifiBackoffMs(n, jitter)
             = Closed(WIFI_RETRY_BASE_MS, WIFI_RETRY_MAX_MS, n) + jitter
       /\ computeBackoffMs(n, jitter)
             = Closed(1 * OneSecond, 30 * OneSecond, n) + jitter
       /\ computeBackoffMs(n, 0) <= 30 * OneSecond
       /\ computeWifiBackoffMs(n, 0) <= WIFI_RETRY_MAX_MS
       /\ n > 0 =>
             /\ computeBackoffMs(n - 1, 0) <= computeBackoffMs(n, 0)
             /\ computeBackoffMs(n, 0)
                   \in {2 * computeBackoffMs(n - 1, 0), 30 * OneSecond}
             /\ computeWifiBackoffMs(n - 1, 0) <= computeWifiBackoffMs(n, 0)
             /\ computeWifiBackoffMs(n, 0)
                   \in {2 * computeWifiBackoffMs(n - 1, 0), WIFI_RETRY_MAX_MS}
       /\ BackoffLoop(1000, 30000, n) = Closed(1000, 30000, n)
       /\ 2 * BackoffLoop(1000, 30000, n) + 999 <= 2147483647

\* the table is the same in every state: it is computed once, at boot
C27_BackoffDoublesToCeiling ==
    /\ pc = "boot" => BackoffTable
    /\ nextSendAtMs <= now + 30 * OneSecond + (OneSecond - 1)
    /\ nextWifiAttemptMs <= now + WIFI_RETRY_MAX_MS + (OneSecond - 1)

\* an attempt has failed with the count at 5: the delay is the ceiling
C27_Witness ==
    /\ failCount = MaxFailCount
    /\ ~wlConnected
    /\ nextSendAtMs = now + 30 * OneSecond

(***************************************************************************)
(* C30.  As stated: two go-aheads of shouldEmitAp for a cached BSSID are   *)
(* at least WIFI_AP_DEDUPE_MS apart; a suppressed record raises            *)
(* wifiApDedupeCount by one, enqueues nothing and leaves the timestamp     *)
(* alone; and the last-emit timestamp of a slot is advanced only in a call *)
(* in which a wifi.ap_seen event for that BSSID enters the queue.          *)
(***************************************************************************)
ApSeenAdmitted(bssid) ==
    /\ Len(admitted') = Len(admitted) + 1
    /\ Contains(admitted'[Len(admitted')], Q("wifi.ap_seen"))
    /\ Contains(admitted'[Len(admitted')], Q(bssid))

C30_StampOnlyWhenEmitted ==
    [][/\ \A i \in ApSlots :
            /\ (wifiApCache[i].valid /\ wifiApCache'[i].valid
                /\ wifiApCache'[i].bssid = wifiApCache[i].bssid
                /\ wifiApCache'[i] # wifiApCache[i]) =>
                  Sub32(wifiApCache'[i].last_emit_ms, wifiApCache[i].last_emit_ms)
                      >= WIFI_AP_DEDUPE_MS
            /\ wifiApCache'[i] # wifiApCache[i] =>
                  ApSeenAdmitted(wifiApCache'[i].bssid)
       /\ wifiApDedupeCount' # wifiApDedupeCount =>
            /\ wifiApDedupeCount' = wifiApDedupeCount + 1
            /\ UNCHANGED <<queueVars, wifiApCache>>]_vars

(***************************************************************************)
(* C21.  As stated: with callbacks running between any two statements of   *)
(* the main task, also between buildEvent and the push, the events enter   *)
(* the queue in seq order: no event is admitted before one with a smaller  *)
(* seq, and no two admitted events share a seq.                            *)
(***************************************************************************)
C21_AdmittedInSeqOrder ==
    \A i, j \in 1..Len(admitted) :
        i < j => SeqOf(admitted[i]) < SeqOf(admitted[j])

(***************************************************************************)
(* C22.  As stated: a push made by a callback is atomic with respect to    *)
(* the steps of a push of the main task.  Once the main task is through    *)
(* with its push, count_ is the number of accepted pushes less the pops,   *)
(* and every accepted event that was not popped is in a slot of the queue: *)
(* none was lost or overwritten.                                           *)
(***************************************************************************)
InQueue(json) ==
    \E i \in 0..(QueueSize(queue) - 1) : QueueAt(queue, i).json = json

C22_CallbackPushAtomic ==
    pc = "loop" =>
        /\ QueueSize(queue) = Len(admitted) - Len(delivered)
        /\ \A k \in 1..Len(admitted) :
              InQueue(admitted[k]) \/ Contains(delivered, admitted[k])

(***************************************************************************)
(* C24.  As stated: after a cold boot with blank stored credentials the    *)
(* node.boot event is eventually written to the local log, whenever the    *)
(* scan callback fires after startBLE().                                   *)
(***************************************************************************)
BootLogged ==
    \E i \in 1..Len(serialLog) : Contains(serialLog[i], Q("node.boot"))

InLog(json) == \E i \in 1..Len(serialLog) : serialLog[i] = json

C31_LoggedAtMostOnce ==
    /\ NoDuplicates(serialLog)
    /\ \A i \in 0..(QueueSize(queue) - 1) :
          QueueAt(queue, i).logged <=> InLog(QueueAt(queue, i).json)

\* a logged entry was delivered after a retry, and its slot holds a newer
\* entry that is not logged
C31_Witness ==
    /\ Len(admitted) > EVENT_QUEUE_CAPACITY
    /\ \E i \in 0..(QueueSize(queue) - 1), k \in 1..Len(delivered) :
          /\ InLog(delivered[k])
          /\ ~QueueAt(queue, i).logged
          /\ \E n \in 1..Len(admitted) :
                /\ admitted[n] = delivered[k]
                /\ n + EVENT_QUEUE_CAPACITY <= Len(admitted)
                /\ admitted[n + EVENT_QUEUE_CAPACITY] = QueueAt(queue, i).json

(***************************************************************************)
(* C32.  Throttling.  Two ingest.ok events are built more than 60 s apart  *)
(* unless an error occurred between them, and two ingest.err events with   *)
(* the same error string are built more than 60 s apart: an ingest that    *)
(* keeps succeeding, or keeps failing, adds at most one ingest.* event per *)
(* minute.  lastIngestOkEventMs and lastIngestErrEventMs are the times of  *)
(* the last event of either kind, and change only when one is built.       *)
(***************************************************************************)
OkBuilt == IngestSucceeded /\ eventSeq' = eventSeq + 1

ErrBuilt == IngestFailed /\ eventSeq' = eventSeq + 1

\* the event admitted in this step carries the type and ts_ms = now
AdmittedNow(type) ==
    Len(admitted') = Len(admitted) + 1 =>
        LET json == admitted'[Len(admitted')] IN
        /\ Contains(json, Q(type))
        /\ json[SetMin(TopLevelAt(json, "ts_ms")) + 2] = ToString(now)

C32_IngestEventsThrottled ==
    [][/\ OkBuilt =>
            /\ lastIngestOkEventMs' = now
            /\ lastIngestOkEventMs > 0 =>
                  \/ Sub32(now, lastIngestOkEventMs) > 60 * OneSecond
                  \/ lastIngestErrMs > lastIngestOkEventMs
       /\ ErrBuilt =>
            /\ lastIngestErrEventMs' = now
            /\ lastIngestErrEventMs > 0 =>
                  \/ Sub32(now, lastIngestErrEventMs) > 60 * OneSecond
                  \/ lastIngestErr' # lastIngestErr
       /\ lastIngestOkEventMs' # lastIngestOkEventMs => OkBuilt
       /\ lastIngestErrEventMs' # lastIngestErrEventMs => ErrBuilt
       /\ OkBuilt => AdmittedNow("ingest.ok")
       /\ ErrBuilt => AdmittedNow("ingest.err")]_vars

\* the ingest.ok event was itself delivered: a 2xx response within a minute
\* of it, and no further event
C32_Witness ==
    /\ lastIngestOkEventMs > 0
    /\ \E k \in 1..Len(delivered) : Contains(delivered[k], Q("ingest.ok"))
    /\ Sub32(lastIngestOkMs, lastIngestOkEventMs) <= 60 * OneSecond

(***************************************************************************)
(* C33.  As stated: at a pass of loop(), a scanner that is not scanning is *)
(* restarted and bleScanRestartCount rises by one; a scanner that is       *)
(* scanning with no callback for more than BLE_SCAN_RESTART_MS, counted    *)
(* from the last callback or, when none has fired in this boot, from the   *)
(* start of the scan, is restarted and bleScanStallCount rises by one;     *)
(* otherwise neither counter changes.                                      *)
(***************************************************************************)
SilentSince == IF lastBleResultMs > 0 THEN lastBleResultMs ELSE lastBleRestartMs

C33_WatchdogRestarts ==
    [][EnsureBleScan =>
          IF ~bleScanning
          THEN /\ bleScanning'
               /\ bleScanRestartCount' = bleScanRestartCount + 1
               /\ bleScanStallCount' = bleScanStallCount
          ELSE IF Sub32(now, SilentSince) > BLE_SCAN_RESTART_MS
          THEN /\ bleScanning'
               /\ bleScanStallCount' = bleScanStallCount + 1
               /\ bleScanRestartCount' = bleScanRestartCount
          ELSE /\ bleScanStallCount' = bleScanStallCount
               /\ bleScanRestartCount' = bleScanRestartCount]_vars

(***************************************************************************)
(* C37.  As stated: after a stall restart no further stall restart happens *)
(* until BLE_SCAN_RESTART_MS has passed since that restart: with no        *)
(* advertisement arriving the stall counter rises at most once per stall   *)
(* threshold.                                                              *)
(***************************************************************************)
C37_OneStallPerThreshold ==
    [][(bleScanStallCount' = bleScanStallCount + 1 /\ bleScanStallCount > 0) =>
          Sub32(now, stallRestartMs) >= BLE_SCAN_RESTART_MS]_vars

(***************************************************************************)
(* C34.  As stated: GET /ble/latest?limit=N lists min(N', bleRingCount)    *)
(* observations, N' being N held to 1..BLE_OBS_CAPACITY (50 for no N),     *)
(* and they are the N' most recently seen observations of the ring in      *)
(* non-increasing order of last_seen_ms.                                   *)
(***************************************************************************)
ClampedLimit(arg) ==
    LET n == IF arg = NoArg THEN 50 ELSE toInt(arg) IN
    IF n < 1 THEN 1 ELSE Min(n, BLE_OBS_CAPACITY)

RingObservations == {bleRing[i] : i \in {k \in BleSlots : bleRing[k].mac # ""}}

C34_LatestMostRecentFirst ==
    \A arg \in LimitArgs :
        LET items == handleBleLatest(arg) IN
        /\ Len(items) = Min(ClampedLimit(arg), bleRingCount)
        /\ \A i \in 1..(Len(items) - 1) :
              items[i].last_seen_ms >= items[i + 1].last_seen_ms
        /\ \A obs \in RingObservations :
              (\A i \in 1..Len(items) : items[i] # obs) =>
                  \A i \in 1..Len(items) :
                      items[i].last_seen_ms >= obs.last_seen_ms

(***************************************************************************)
(* C35.  As stated: in POST /probe each of the flags dns, http_ingest,     *)
(* http_self and emit takes the boolean the body gives for its own key,    *)
(* whatever the other keys, their values and their order (dns, http_ingest *)
(* and emit are true and http_self false when absent).  probe.net is built *)
(* exactly when emit and dns are true, probe.http exactly when emit and    *)
(* one of the HTTP flags are true, nothing when emit is false.             *)
(***************************************************************************)
\* the boolean the body gives for key
Given(body, key, defaultValue) ==
    LET at == {i \in 1..Len(body) : body[i] = Q(key)} IN
    IF at = {} THEN defaultValue ELSE body[SetMin(at) + 2] = "true"

ProbeEvents(body) ==
    LET emit == Given(body, "emit", TRUE)
        net == emit /\ Given(body, "dns", TRUE)
        http == emit /\ (Given(body, "http_ingest", TRUE)
                         \/ Given(body, "http_self", FALSE))
    IN (IF net THEN 1 ELSE 0) + (IF http THEN 1 ELSE 0)

C35_ProbeFlagsIndependent ==
    [][\A body \in ProbeBodies, up \in BOOLEAN :
          HandleProbe(body, up) => eventSeq' = eventSeq + ProbeEvents(body)]_vars

(***************************************************************************)
(* C36.  As stated: wifi.status is enqueued only when the station state,   *)
(* the connectivity or the IP changes.  While the state stays connecting,  *)
(* or stays backoff, and no Wi-Fi event arrives, a pass of loop() through  *)
(* ensureWiFi() builds no event and leaves wifiConnectStartMs alone.       *)
(***************************************************************************)
EnsureWiFiPass == loopAt = "handleClient" /\ loopAt' = "timeout"

C36_StatusOnlyOnChange ==
    [][(/\ EnsureWiFiPass
        /\ wifiState \in {"connecting", "backoff"}
        /\ wifiState' = wifiState
        /\ wlConnected' = wlConnected) =>
          /\ eventSeq' = eventSeq
          /\ wifiConnectStartMs' = wifiConnectStartMs]_vars

(***************************************************************************)
(* C39.  The BLE ring holds at most one entry per (MAC, adv-flags) key.    *)
(* Recording an advertisement whose key is in the ring updates that entry  *)
(* in place, inside the dedup window or outside it: bleRingCount and       *)
(* bleRingHead stay, no overwrite is counted and every other entry is      *)
(* unchanged.                                                              *)
(***************************************************************************)
KeySlots(ring, count, mac, advFlags) ==
    {i \in BleSlots : i < count /\ ring[i].mac = mac /\ ring[i].adv_flags = advFlags}

BleRecorded(dev) == BleOnResult(dev) /\ bleSeenCount' = bleSeenCount + 1

C39_OneEntryPerKey ==
    [][/\ \A dev \in Devices :
             Cardinality(KeySlots(bleRing', bleRingCount', dev.addr, dev.advFlags)) <= 1
       /\ \A dev \in Devices :
             LET held == KeySlots(bleRing, bleRingCount, dev.addr, dev.advFlags) IN
             (BleRecorded(dev) /\ held # {}) =>
                 /\ UNCHANGED <<bleRingCount, bleRingHead, bleRingOverwriteCount>>
                 /\ \A i \in BleSlots \ held : bleRing'[i] = bleRing[i]
                 /\ \A i \in held :
                       /\ bleRing'[i].last_seen_ms = now
                       /\ bleRing'[i].seen_count = bleRing[i].seen_count + 1]_vars

\* the ring is full and an entry was refreshed outside the dedup window
C39_Witness ==
    /\ bleRingCount = BLE_OBS_CAPACITY
    /\ bleDedupeCount = 0
    /\ \E i \in BleSlots : bleRing[i].seen_count >= 2

(***************************************************************************)
(* C40: POST /save with an empty SSID is answered 400, leaves the persisted *)
(* ssid and pass as they were and does not reboot; with a non-empty SSID   *)
(* the handler stores exactly the submitted ssid and pass and then         *)
(* restarts.  The persisted credentials change in no other step.           *)
(***************************************************************************)
C40_SaveRejectsEmptySsid ==
    [][/\ \A ssid \in FormSsids, pass \in FormPasses :
              PortalSave(ssid, pass) =>
                  IF ssid = ""
                  THEN /\ saveStatus' = 400
                       /\ prefs' = prefs
                       /\ restartCount' = restartCount /\ pc' = pc
                  ELSE /\ saveStatus' = 200
                       /\ prefs' = [ssid |-> ssid, pass |-> pass]
                       /\ restartCount' = restartCount + 1 /\ pc' = "boot"
       /\ (saveStatus' = 400 /\ saveStatus # 400) =>
              (prefs' = prefs /\ restartCount' = restartCount /\ pc' = pc)
       /\ prefs' # prefs =>
              /\ saveStatus' = 200 /\ restartCount' = restartCount + 1
              /\ prefs'.ssid \in FormSsids \ {""}
              /\ prefs'.pass \in FormPasses]_vars

C40_Witness ==
    /\ restartCount = 1 /\ saveStatus = 200
    /\ prefs = [ssid |-> "lab", pass |-> ""]

(***************************************************************************)
(* C38: if from some point on the station stays connected and no POST      *)
(* fails, then again and again every event admitted to the queue has been  *)
(* posted and is out of the queue, whatever failCount and nextSendAtMs     *)
(* were when the trouble ended.  A posted event is never queued again, so  *)
(* this says that each queued event is eventually posted and removed.      *)
(***************************************************************************)
Delivered(json) == \E i \in 1..Len(delivered) : delivered[i] = json

PostFailed ==
    \/ ingestErrCount' # ingestErrCount
    \/ nextSendAtMs' # nextSendAtMs

AllDelivered ==
    \A k \in 1..Len(admitted) :
        Delivered(admitted[k]) /\ ~InQueue(admitted[k])

\* a wait for the next-send time is one TickRetry can end
RetryClockRuns ==
    (pc = "loop" /\ now < nextSendAtMs) => now <= 2 * (30 * OneSecond)

C38_QueuedEventsDelivered ==
    /\ []RetryClockRuns
    /\ (<>[]wlConnected /\ <>[][~PostFailed]_vars) => []<>AllDelivered

C38_Witness ==
    /\ now >= 61 * OneSecond
    /\ ingestErrCount > 0
    /\ Len(admitted) > 0 /\ AllDelivered
    /\ QueueEmpty(queue) /\ pc = "loop"


====
